---- MODULE Spec2Model ----
(***************************************************************************)
(* Storage kernel of the database: the buffer pool manager                 *)
(* (buffer_pool_manager_instance.cpp), its LRU-K replacer                  *)
(* (lru_k_replacer.cpp), the extendible hash table it uses as page table   *)
(* (extendible_hash_table.cpp), the B+ tree index with its iterator and    *)
(* its latches (b_plus_tree.cpp), and the sequential scan executor         *)
(* (seq_scan_executor.cpp).                                                *)
(*                                                                         *)
(* Spec          the buffer pool driven by NewPage, FetchPage, UnpinPage,  *)
(*               FlushPage, FlushAllPages and DeletePage.                  *)
(* SpecData      the same pool with callers that write bytes into the      *)
(*               pages they have pinned.                                   *)
(* SpecReplacer  the LRU-K replacer driven directly by RecordAccess,       *)
(*               SetEvictable, Remove and Evict.                           *)
(* SpecTable     the extendible hash table driven by Insert and Remove.    *)
(* SpecTree      the B+ tree index (b_plus_tree.cpp and its leaf and       *)
(*               internal pages) driven by Insert and Remove.              *)
(* SpecScan      the sequential scan executor: Init and Next under the     *)
(*               three isolation levels, with the lock manager's answers.  *)
(* SpecCrab      the B+ tree called by several threads: latch crabbing in  *)
(*               GetLeafPage, Insert, Remove and GetValue.                 *)
(* SpecIter      an index iterator (Begin, operator++, destructor) next    *)
(*               to Remove calls of other threads.                         *)
(***************************************************************************)
EXTENDS Integers, Sequences, FiniteSets, TLC

\* ---------------------------------------------------------------- bounds
\* pool_size_: number of frames of the pool (constructor argument).
PoolSize == 2
\* Page ids handed out by AllocatePage are 0 .. MaxPageId - 1.
MaxPageId == 3
\* replacer_k (constructor argument of the pool) ranges over 2 .. MaxK.
MaxK == 2
\* Page contents are one value of 0 .. MaxData; 0 is the zeroed page.
MaxData == 1
\* bucket_size_ of the page table (constructor argument of the hash table).
BucketSize == 1
\* A hash table driven on its own has bucket_size 1 .. MaxBucket, keys
\* 0 .. MaxKey and values 0 .. MaxValue.
MaxBucket == 2
MaxKey == 5
MaxValue == 1
\* k of a replacer driven on its own ranges over 1 .. MaxReplacerK.
MaxReplacerK == 3
\* Calls of LRUKReplacer::Remove on a tracked, non-evictable frame explored.
MaxViolations == 1
\* A B+ tree is built with leaf_max_size in 2 .. MaxLeafSize and
\* internal_max_size in 3 .. MaxInternalSize, over the keys 1 .. MaxTreeKey;
\* the value stored with a key is one of 1 .. MaxRid.  The pool hands the
\* tree the page ids 0 .. MaxTreePages - 1.
MaxLeafSize == 4
MaxInternalSize == 3
MaxTreeKey == 5
MaxRid == 2
MaxTreePages == 8

\* Threads 1 .. MaxThreads call Insert, Remove and GetValue on one tree,
\* MaxCalls calls between them, with the keys 1 .. MaxCallKey and the key
\* MaxCrabKey; the tree has leaf_max_size CrabLeafSize and
\* internal_max_size CrabInternalSize, holds the keys 2 .. n + 1 for some n
\* of 0 .. MaxPrefill when the threads start, inserted from the largest
\* down, and is handed the page ids 0 .. MaxCrabPages - 1.
MaxThreads == 2
MaxCalls == 3
MaxCallKey == 2
MaxPrefill == 7
MaxCrabKey == MaxPrefill + 1
MaxCrabPages == 8
CrabLeafSize == 4
CrabInternalSize == 3

\* A sequential scan runs over a table of 0 .. MaxRows rows.
MaxRows == 4

\* Accesses to one frame between two evictions that the pool's callers make.
MaxRefs == 2

\* The replacer on its own follows an access count up to one past the
\* largest K.
MaxAccess == MaxReplacerK + 1

INVALID_PAGE_ID == 0 - 1
NoFrame == 0 - 1
NoBytes == 0 - 1
ZeroData == 0

FrameIds == 0 .. (PoolSize - 1)
PageIds == 0 .. (MaxPageId - 1)
Data == 0 .. MaxData

VARIABLES
  pages,          \* pages_[f]: [page_id, pin_count, is_dirty, data]
  free_list,      \* free_list_: sequence of frame ids, front first
  page_table,     \* page_table_: the extendible hash table
  replacer,       \* replacer_: the LRU-K replacer
  disk,           \* the disk manager's pages: page id -> bytes
  next_page_id,   \* next_page_id_
  latch_held,     \* latch_ (std::mutex) is locked
  flushall_pc,    \* position of the thread inside FlushAllPgsImp
  last,           \* the last call that changed state, and its victim's pin count
  rt,             \* the create / write / release / fetch round trip followed
  violations,     \* Remove calls made on a tracked, non-evictable frame
  access_order,   \* the tracked frames by first and by latest RecordAccess
  table,          \* an ExtendibleHashTable<int, int> driven on its own
  shadow,         \* the pairs inserted into table and not removed since
  tree,           \* a BPlusTree and the index pages it has allocated
  tree_pairs,     \* the pairs inserted into tree and not removed since
  scan,           \* a SeqScanExecutor, its transaction and the locks it holds
  root_page_id_latch,  \* root_page_id_latch_ of the tree: [readers, writer]
  rwlatch,        \* rwlatch_ of every index page: [readers, writer]
  pin_count,      \* pin_count_ of every index page
  txn             \* per thread: the call it is in and its transaction

vars == <<pages, free_list, page_table, replacer, disk, next_page_id,
          latch_held, flushall_pc, last, rt, violations, access_order,
          table, shadow, tree, tree_pairs, scan, root_page_id_latch,
          rwlatch, pin_count, txn>>

\* The variables the buffer pool's operations never touch.
extVars == <<access_order, table, shadow, tree, tree_pairs, scan,
             root_page_id_latch, rwlatch, pin_count, txn>>

tableVars == <<table, shadow>>

treeVars == <<tree, tree_pairs>>

scanVars == <<scan>>

crabVars == <<root_page_id_latch, rwlatch, pin_count, txn>>

bpmVars == <<pages, free_list, page_table, disk, next_page_id,
             latch_held, flushall_pc, rt>>

\* ------------------------------------------------------------ small helpers
Pow2(n) == 2 ^ n

MinOf(S) == CHOOSE x \in S : \A y \in S : x <= y

Range(s) == {s[i] : i \in 1 .. Len(s)}

\* list.erase of the node holding x (the list holds x at most once).
EraseValue(s, x) == SelectSeq(s, LAMBDA e : e # x)

\* ============================================================================
\* Extendible hash table (extendible_hash_table.cpp)
\* A table is [global_depth, bucket_size, dir, buckets, num_buckets]; dir
\* maps a slot 0 .. 2^global_depth - 1 to a bucket name, buckets maps a
\* bucket name to [size, depth, list], list being the (key, value) pairs in
\* insertion order.  A shared_ptr<Bucket> is named by the lowest directory
\* slot that holds it.
\* ============================================================================

\* std::hash<int>: the key converted to size_t.  Only hash & mask is used,
\* and TLA+'s % gives the two's complement low bits for a negative key too.
HashOf(key) == key

IndexOf(t, key) == HashOf(key) % Pow2(t.global_depth)

NewBucket(array_size, depth) ==
  [size |-> array_size, depth |-> depth, list |-> <<>>]

NewTable(bucket_size) ==
  [global_depth |-> 0,
   bucket_size  |-> bucket_size,
   dir          |-> [i \in {0} |-> 0],
   buckets      |-> [b \in {0} |-> NewBucket(bucket_size, 0)],
   num_buckets  |-> 1]

BucketIsFull(b) == Len(b.list) = b.size

BucketHas(b, key) == \E i \in 1 .. Len(b.list) : b.list[i][1] = key

BucketValue(b, key) ==
  b.list[MinOf({i \in 1 .. Len(b.list) : b.list[i][1] = key})][2]

BucketRemove(b, key) ==
  [b EXCEPT !.list = SelectSeq(b.list, LAMBDA e : e[1] # key)]

\* Bucket::Insert that leaves the value of a key already stored as it is.
BucketInsertKeepsValue(b, key, value) ==
  IF BucketHas(b, key) THEN b
  ELSE IF ~BucketIsFull(b)
         THEN [b EXCEPT !.list = Append(b.list, <<key, value>>)]
         ELSE b

BucketInsert(b, key, value) ==
  IF BucketHas(b, key)
    THEN [b EXCEPT !.list = [i \in 1 .. Len(b.list) |->
                               IF b.list[i][1] = key THEN <<key, value>>
                                                     ELSE b.list[i]]]
    ELSE IF ~BucketIsFull(b)
           THEN [b EXCEPT !.list = Append(b.list, <<key, value>>)]
           ELSE b

HTHas(t, key) == BucketHas(t.buckets[t.dir[IndexOf(t, key)]], key)

\* Find: the value stored for key, NoFrame when Find returns false.
HTFind(t, key) ==
  IF HTHas(t, key) THEN BucketValue(t.buckets[t.dir[IndexOf(t, key)]], key)
                   ELSE NoFrame

HTRemove(t, key) ==
  [t EXCEPT !.buckets[t.dir[IndexOf(t, key)]] = BucketRemove(@, key)]

\* Redistribute with the test turned round: an item goes to the bucket of
\* the other value of the bit.
RECURSIVE RedistributeOtherHalf(_, _, _, _)
RedistributeOtherHalf(items, local_mask, bit, bucket) ==
  IF items = <<>> THEN bucket
  ELSE LET it == Head(items)
           goes == ((HashOf(it[1]) \div local_mask) % 2) # bit
       IN RedistributeOtherHalf(Tail(items), local_mask, bit,
                             IF goes THEN BucketInsert(bucket, it[1], it[2])
                                     ELSE bucket)

\* The redistribution loop of a split: the items of the old bucket with the
\* given value of bit local_mask, inserted in order into a new bucket.
RECURSIVE Redistribute(_, _, _, _)
Redistribute(items, local_mask, bit, bucket) ==
  IF items = <<>> THEN bucket
  ELSE LET it == Head(items)
           goes == ((HashOf(it[1]) \div local_mask) % 2) = bit
       IN Redistribute(Tail(items), local_mask, bit,
                       IF goes THEN BucketInsert(bucket, it[1], it[2])
                               ELSE bucket)

\* MustDouble without the comparison: every split doubles the directory.
MustDoubleAlways(t, local_depth) == TRUE

\* Insert: GetGlobalDepthInternal() == local_depth, the test that doubles
\* the directory.
MustDouble(t, local_depth) == t.global_depth = local_depth

\* CountSplit that counts a directory doubling as one more bucket.
CountSplitAndDoubling(num_buckets, grown) ==
  IF grown THEN num_buckets + 2 ELSE num_buckets + 1

\* Insert: ++num_buckets_, once for each pass of the loop.
CountSplit(num_buckets, grown) == num_buckets + 1

\* One pass of the while loop of Insert: split the full bucket of slot index.
SplitBucket(t, index) ==
  LET old         == t.dir[index]
      local_depth == t.buckets[old].depth
      grown       == MustDouble(t, local_depth)
      gd          == IF grown THEN t.global_depth + 1 ELSE t.global_depth
      dir1        == IF grown
                       THEN [i \in 0 .. (Pow2(gd) - 1) |->
                               t.dir[i % Pow2(t.global_depth)]]
                       ELSE t.dir
      local_mask  == Pow2(local_depth)
      empty       == NewBucket(t.bucket_size, local_depth + 1)
      bucket_0    == Redistribute(t.buckets[old].list, local_mask, 0, empty)
      bucket_1    == Redistribute(t.buckets[old].list, local_mask, 1, empty)
      slots0      == {i \in DOMAIN dir1 :
                        dir1[i] = old /\ (i \div local_mask) % 2 = 0}
      slots1      == {i \in DOMAIN dir1 :
                        dir1[i] = old /\ (i \div local_mask) % 2 = 1}
      name0       == IF slots0 = {} THEN NoFrame ELSE MinOf(slots0)
      name1       == IF slots1 = {} THEN NoFrame ELSE MinOf(slots1)
      dir2        == [i \in DOMAIN dir1 |->
                        IF i \in slots0 THEN name0
                        ELSE IF i \in slots1 THEN name1 ELSE dir1[i]]
      names       == {dir2[i] : i \in DOMAIN dir2}
  IN [global_depth |-> gd,
      bucket_size  |-> t.bucket_size,
      dir          |-> dir2,
      buckets      |-> [b \in names |->
                          IF b = name0 /\ slots0 # {} THEN bucket_0
                          ELSE IF b = name1 /\ slots1 # {} THEN bucket_1
                          ELSE t.buckets[b]],
      num_buckets  |-> CountSplit(t.num_buckets, grown)]

RECURSIVE SplitWhileFull(_, _)
SplitWhileFull(t, key) ==
  IF BucketIsFull(t.buckets[t.dir[IndexOf(t, key)]])
    THEN SplitWhileFull(SplitBucket(t, IndexOf(t, key)), key)
    ELSE t

HTInsert(t, key, value) ==
  IF HTHas(t, key)
    THEN [t EXCEPT !.buckets[t.dir[IndexOf(t, key)]] =
                      BucketInsert(@, key, value)]
    ELSE LET t2 == SplitWhileFull(t, key)
         IN [t2 EXCEPT !.buckets[t2.dir[IndexOf(t2, key)]] =
                          BucketInsert(@, key, value)]

\* Insert(key, key) for the keys of a sequence, in order, as the tests do.
RECURSIVE InsertAll(_, _)
InsertAll(t, keys) ==
  IF keys = <<>> THEN t
  ELSE InsertAll(HTInsert(t, Head(keys), Head(keys)), Tail(keys))

\* Remove(key) for the keys of a sequence, in order.
RECURSIVE RemoveAll(_, _)
RemoveAll(t, keys) ==
  IF keys = <<>> THEN t
  ELSE RemoveAll(HTRemove(t, Head(keys)), Tail(keys))

\* GetLocalDepth(dir_index)
LocalDepth(t, dir_index) == t.buckets[t.dir[dir_index]].depth

\* The orders in which the calls of threads 0 .. n - 1 can take effect.
Interleavings(n) ==
  {s \in [1 .. n -> 0 .. (n - 1)] : \A i, j \in 1 .. n : s[i] = s[j] => i = j}

\* Every key stored in some bucket the directory references.
HTKeys(t) ==
  UNION {{t.buckets[b].list[i][1] : i \in 1 .. Len(t.buckets[b].list)} :
           b \in DOMAIN t.buckets}

\* ============================================================================
\* LRU-K replacer (lru_k_replacer.cpp)
\* A replacer is [k, replacer_size, entries, history_list, cache_list,
\* curr_size, ub]; entries maps a tracked frame to [in_count, evictable]; the
\* lists hold frame ids, front first.  curr_size is a size_t: the model keeps
\* the representative of its value modulo 2^64 that lies nearest 0, so that
\* 0 - 1 stands for 2^64 - 1.
\* ============================================================================

\* The evictable_ flag of an entry that entries_[frame_id] has just created.
DefaultEvictable == TRUE

NewReplacer(num_frames, k) ==
  [k |-> k, replacer_size |-> num_frames,
   entries |-> [f \in {} |-> 0],
   history_list |-> <<>>, cache_list |-> <<>>,
   curr_size |-> 0, ub |-> FALSE]

Tracked(r) == DOMAIN r.entries

DropEntry(entries, frame_id) ==
  [f \in (DOMAIN entries) \ {frame_id} |-> entries[f]]

PutEntry(entries, frame_id, e) ==
  [f \in (DOMAIN entries) \cup {frame_id} |->
     IF f = frame_id THEN e ELSE entries[f]]

\* which_list.erase(entries_[frame_id].pos_).  pos_ names the node of
\* frame_id, and erase unlinks that node from the list that holds it.  When
\* that is not the list erase is called on, the call is undefined behaviour:
\* ub records it.
ErasePos(r, which_list, frame_id) ==
  [r EXCEPT !.history_list = EraseValue(@, frame_id),
            !.cache_list = EraseValue(@, frame_id),
            !.ub = @ \/ (frame_id \notin
                           Range(IF which_list = "history"
                                   THEN r.history_list ELSE r.cache_list))]

\* BackmostEvictable with the scan run from the front of the list.
FrontmostEvictable(r, list) ==
  LET idx == {i \in 1 .. Len(list) : r.entries[list[i]].evictable}
  IN IF idx = {} THEN 0 ELSE CHOOSE i \in idx : \A j \in idx : i <= j

\* The reverse scan of Evict: position of the evictable frame nearest the
\* back of the list, 0 when the list holds none.
BackmostEvictable(r, list) ==
  LET idx == {i \in 1 .. Len(list) : r.entries[list[i]].evictable}
  IN IF idx = {} THEN 0 ELSE CHOOSE i \in idx : \A j \in idx : j <= i

EvictFrom(r, which_list, frame_id) ==
  [r EXCEPT !.history_list =
               IF which_list = "history" THEN EraseValue(@, frame_id) ELSE @,
            !.cache_list =
               IF which_list = "cache" THEN EraseValue(@, frame_id) ELSE @,
            !.entries = DropEntry(@, frame_id),
            !.curr_size = @ - 1]

\* Evict without the scan of cache_list_.
EvictHistoryOnly(r) ==
  LET h == BackmostEvictable(r, r.history_list)
  IN IF h > 0
       THEN [ok |-> TRUE, frame_id |-> r.history_list[h],
             r |-> EvictFrom(r, "history", r.history_list[h])]
       ELSE [ok |-> FALSE, frame_id |-> NoFrame, r |-> r]

\* Evict: [ok, frame_id, r], r being the replacer after the call.
Evict(r) ==
  LET h == BackmostEvictable(r, r.history_list)
      c == BackmostEvictable(r, r.cache_list)
  IN IF h > 0
       THEN [ok |-> TRUE, frame_id |-> r.history_list[h],
             r |-> EvictFrom(r, "history", r.history_list[h])]
       ELSE IF c > 0
         THEN [ok |-> TRUE, frame_id |-> r.cache_list[c],
               r |-> EvictFrom(r, "cache", r.cache_list[c])]
         ELSE [ok |-> FALSE, frame_id |-> NoFrame, r |-> r]

\* The bounds check of RecordAccess, SetEvictable and Remove.
InvalidFrame(r, frame_id) == frame_id > r.replacer_size

RecordAccess(r, frame_id) ==
  IF InvalidFrame(r, frame_id) THEN r
  ELSE LET old == IF frame_id \in Tracked(r)
                    THEN r.entries[frame_id]
                    ELSE [in_count |-> 0, evictable |-> DefaultEvictable]
           new_size == old.in_count + 1
           r1 == [r EXCEPT !.entries =
                    PutEntry(@, frame_id, [old EXCEPT !.in_count = new_size])]
       IN IF new_size = 1
            THEN [r1 EXCEPT !.history_list = <<frame_id>> \o @,
                            !.curr_size = @ + 1]
          ELSE IF new_size = r.k
            THEN [ErasePos(r1, "history", frame_id)
                    EXCEPT !.cache_list = <<frame_id>> \o @]
          ELSE IF new_size > r.k
            THEN [ErasePos(r1, "cache", frame_id)
                    EXCEPT !.cache_list = <<frame_id>> \o @]
          ELSE r1

SetEvictable(r, frame_id, set_evictable) ==
  IF InvalidFrame(r, frame_id) \/ frame_id \notin Tracked(r) THEN r
  ELSE LET was == r.entries[frame_id].evictable
       IN [r EXCEPT !.curr_size = IF was /\ ~set_evictable THEN @ - 1
                                  ELSE IF ~was /\ set_evictable THEN @ + 1
                                  ELSE @,
                    !.entries[frame_id].evictable = set_evictable]

Remove(r, frame_id) ==
  IF InvalidFrame(r, frame_id) \/ frame_id \notin Tracked(r) THEN r
  ELSE LET which_list == IF r.entries[frame_id].in_count < r.k
                           THEN "history" ELSE "cache"
       IN [ErasePos(r, which_list, frame_id)
             EXCEPT !.entries = DropEntry(@, frame_id),
                    !.curr_size = @ - 1]

\* Size()
Size(r) == r.curr_size

\* The access count of frame_id is below max.
CanAccess(r, frame_id, max) ==
  IF frame_id \in Tracked(r)
    THEN r.entries[frame_id].in_count < max
    ELSE TRUE

\* ============================================================================
\* Buffer pool manager (buffer_pool_manager_instance.cpp)
\* Every operation is a function of the pool b = [pages, free_list,
\* page_table, replacer, disk, next_page_id] and of its arguments, giving the
\* pool after the call and the value returned; latch_ is held from the first
\* to the last statement, so a call is one step.
\* ============================================================================

NoPin == 0 - 1

FreshPage == [page_id |-> INVALID_PAGE_ID, pin_count |-> 0,
              is_dirty |-> FALSE, data |-> ZeroData]

\* The pool as it is now.
Pool == [pages |-> pages, free_list |-> free_list, page_table |-> page_table,
         replacer |-> replacer, disk |-> disk, next_page_id |-> next_page_id]

\* IsPageAvailable with the comparison of the loop widened to >= 0.
IsPageAvailableAnyPin(pgs) == \E i \in FrameIds : pgs[i].pin_count >= 0

\* The loop over pages_ that opens NewPgImp and the miss path of FetchPgImp.
IsPageAvailable(pgs) == \E i \in FrameIds : pgs[i].pin_count = 0

\* The frame ids frame_id can hold after the free list / Evict choice.  The
\* result of Evict is ignored: when Evict returns false frame_id is read
\* uninitialised and may name any frame.
FrameChoices(b) ==
  IF b.free_list # <<>> THEN {Head(b.free_list)}
  ELSE IF Evict(b.replacer).ok THEN {Evict(b.replacer).frame_id}
  ELSE FrameIds

\* WriteBack without the call of WritePage.
WriteBackDropped(d, victim) == d

\* WritePage of the victim's bytes when the victim is dirty.
WriteBack(d, victim) ==
  IF victim.is_dirty /\ victim.page_id \in DOMAIN d
    THEN [d EXCEPT ![victim.page_id] = victim.data]
    ELSE d

\* TakeFrame without page_table_->Remove(evicted_page_id).
TakeFrameKeepsEntry(b, frame_id) ==
  IF b.free_list # <<>>
    THEN [b EXCEPT !.free_list = Tail(@)]
    ELSE LET victim == b.pages[frame_id]
         IN [b EXCEPT !.replacer = Evict(@).r,
                      !.disk = WriteBack(@, victim),
                      !.pages[frame_id] =
                         [@ EXCEPT !.is_dirty = FALSE, !.data = ZeroData]]

\* The frame acquisition of NewPgImp and FetchPgImp, frame_id being the frame
\* taken: the pool after it.
TakeFrame(b, frame_id) ==
  IF b.free_list # <<>>
    THEN [b EXCEPT !.free_list = Tail(@)]
    ELSE LET victim == b.pages[frame_id]
         IN [b EXCEPT !.replacer = Evict(@).r,
                      !.disk = WriteBack(@, victim),
                      !.pages[frame_id] =
                         [@ EXCEPT !.is_dirty = FALSE, !.data = ZeroData],
                      !.page_table = HTRemove(@, victim.page_id)]

\* The pin count of the frame the replacer gives up, NoPin when the frame
\* comes from the free list.
VictimPin(b, frame_id) ==
  IF b.free_list # <<>> THEN NoPin ELSE b.pages[frame_id].pin_count

\* Install without replacer_->SetEvictable(frame_id, false).
InstallLeavesEvictable(b, page_id, frame_id) ==
  [b EXCEPT !.page_table = HTInsert(@, page_id, frame_id),
            !.pages[frame_id] = [@ EXCEPT !.page_id = page_id,
                                          !.pin_count = 1],
            !.replacer = RecordAccess(@, frame_id)]

\* The installation that ends NewPgImp and the miss path of FetchPgImp.
Install(b, page_id, frame_id) ==
  [b EXCEPT !.page_table = HTInsert(@, page_id, frame_id),
            !.pages[frame_id] = [@ EXCEPT !.page_id = page_id,
                                          !.pin_count = 1],
            !.replacer = SetEvictable(RecordAccess(@, frame_id),
                                      frame_id, FALSE)]

NewPgImp(b, frame_id) ==
  IF ~IsPageAvailable(b.pages)
    THEN [pool |-> b, ret |-> "throw", page_id |-> INVALID_PAGE_ID]
    ELSE LET page_id == b.next_page_id
             b1 == [b EXCEPT !.next_page_id = @ + 1]
         IN [pool |-> Install(TakeFrame(b1, frame_id), page_id, frame_id),
             ret |-> "page", page_id |-> page_id]

FetchPgImp(b, page_id, frame_id) ==
  IF HTHas(b.page_table, page_id)
    THEN LET hit == HTFind(b.page_table, page_id)
         IN [pool |-> [b EXCEPT !.pages[hit].pin_count = @ + 1,
                                !.replacer = SetEvictable(
                                               RecordAccess(@, hit),
                                               hit, FALSE)],
             ret |-> "page"]
    ELSE IF ~IsPageAvailable(b.pages)
      THEN [pool |-> b, ret |-> "throw"]
      ELSE LET b1 == Install(TakeFrame(b, frame_id), page_id, frame_id)
           IN [pool |-> [b1 EXCEPT !.pages[frame_id].data = b1.disk[page_id]],
               ret |-> "page"]

\* UnpinFrame with is_dirty_ assigned whatever the argument is.
UnpinFrameAssigns(frame, is_dirty) ==
  [frame EXCEPT !.is_dirty = is_dirty, !.pin_count = @ - 1]

\* The frame after the dirty-flag update and the decrement of UnpinPgImp.
UnpinFrame(frame, is_dirty) ==
  [frame EXCEPT !.is_dirty = IF is_dirty THEN is_dirty ELSE @,
                !.pin_count = @ - 1]

UnpinPgImp(b, page_id, is_dirty) ==
  IF ~HTHas(b.page_table, page_id)
    THEN [pool |-> b, ret |-> "false"]
    ELSE LET frame_id == HTFind(b.page_table, page_id)
             frame == UnpinFrame(b.pages[frame_id], is_dirty)
         IN IF b.pages[frame_id].pin_count = 0
              THEN [pool |-> b, ret |-> "false"]
              ELSE [pool |-> [b EXCEPT !.pages[frame_id] = frame,
                                       !.replacer =
                                          IF frame.pin_count = 0
                                            THEN SetEvictable(@, frame_id,
                                                              TRUE)
                                            ELSE @],
                    ret |-> "true"]

\* FlushPgImp that also clears is_dirty_ after the write.
FlushPgImpClearsDirty(b, page_id) ==
  IF page_id = INVALID_PAGE_ID \/ ~HTHas(b.page_table, page_id)
    THEN [pool |-> b, ret |-> "false"]
    ELSE LET frame_id == HTFind(b.page_table, page_id)
         IN [pool |-> [b EXCEPT !.disk[page_id] = b.pages[frame_id].data,
                                !.pages[frame_id].is_dirty = FALSE],
             ret |-> "true"]

FlushPgImp(b, page_id) ==
  IF page_id = INVALID_PAGE_ID \/ ~HTHas(b.page_table, page_id)
    THEN [pool |-> b, ret |-> "false"]
    ELSE LET frame_id == HTFind(b.page_table, page_id)
         IN [pool |-> [b EXCEPT !.disk[page_id] = b.pages[frame_id].data],
             ret |-> "true"]

\* ResetFrame without is_dirty_ = false.
ResetFrameKeepsDirty(frame) ==
  [frame EXCEPT !.data = ZeroData,
                !.page_id = INVALID_PAGE_ID, !.pin_count = 0]

\* The frame after the reset that ends DeletePgImp.
ResetFrame(frame) ==
  [frame EXCEPT !.data = ZeroData, !.is_dirty = FALSE,
                !.page_id = INVALID_PAGE_ID, !.pin_count = 0]

DeletePgImp(b, page_id) ==
  IF ~HTHas(b.page_table, page_id)
    THEN [pool |-> b, ret |-> "true"]
    ELSE LET frame_id == HTFind(b.page_table, page_id)
         IN IF b.pages[frame_id].pin_count > 0
              THEN [pool |-> b, ret |-> "false"]
              ELSE [pool |-> [b EXCEPT !.page_table = HTRemove(@, page_id),
                                       !.replacer = Remove(@, frame_id),
                                       !.free_list = Append(@, frame_id),
                                       !.pages[frame_id] = ResetFrame(@)],
                    ret |-> "true"]

\* ------------------------------------------------------------ history variables
\* last: the last call that changed the pool (or the replacer, when the
\* replacer is driven on its own), and the pin count the evicted frame had
\* when that call took a frame from the replacer.  With op "off" no call is
\* recorded.
Call(op, victim_pin) ==
  IF last.op = "off" THEN last ELSE [op |-> op, victim_pin |-> victim_pin]

NoCall == [op |-> "none", victim_pin |-> NoPin]

CallOff == [op |-> "off", victim_pin |-> NoPin]

\* rt follows one page through the round trip NewPage, byte writes,
\* UnpinPage(p, true), calls on other pages, FetchPage(p).  stage is "new"
\* after NewPage, "released" after the unpin (bytes: what the frame held),
\* "fetched" after the FetchPage (missed: p was not resident at that call).
\* Any other call on the page ends the round trip.  With stage "off" no
\* round trip is followed.
NoTrip == [page |-> INVALID_PAGE_ID, stage |-> "none", bytes |-> NoBytes,
           missed |-> FALSE]

TripOff == [NoTrip EXCEPT !.stage = "off"]

OnTrip(page_id) == rt.stage \in {"new", "released", "fetched"}
                     /\ rt.page = page_id

TripAfterNew(page_id) ==
  IF rt.stage \in {"none", "fetched"}
    THEN [page |-> page_id, stage |-> "new", bytes |-> NoBytes,
          missed |-> FALSE]
    ELSE rt

TripAfterWrite(page_id) ==
  IF ~OnTrip(page_id) \/ rt.stage = "new" THEN rt ELSE NoTrip

TripAfterUnpin(page_id, is_dirty, frame) ==
  IF ~OnTrip(page_id) THEN rt
  ELSE IF rt.stage = "new" /\ is_dirty /\ frame.pin_count = 0
    THEN [rt EXCEPT !.stage = "released", !.bytes = frame.data]
  ELSE NoTrip

TripAfterFetch(page_id, missed) ==
  IF ~OnTrip(page_id) THEN rt
  ELSE IF rt.stage = "released"
    THEN [rt EXCEPT !.stage = "fetched", !.missed = missed]
  ELSE NoTrip

TripAfterOther(page_id) == IF OnTrip(page_id) THEN NoTrip ELSE rt

\* shadow: the map a hash table driven on its own stands for, key -> value.
NoPairs == [key \in {} |-> 0]

\* access_order: the tracked frames of a replacer driven on its own, oldest
\* first, by the time of the first RecordAccess since they became tracked
\* (first) and by the time of the latest RecordAccess (latest).
NoOrder == [first |-> <<>>, latest |-> <<>>]

OrderAfterAccess(r, frame_id) ==
  IF InvalidFrame(r, frame_id) THEN access_order
  ELSE [first  |-> IF frame_id \in Tracked(r) THEN access_order.first
                   ELSE Append(access_order.first, frame_id),
        latest |-> Append(EraseValue(access_order.latest, frame_id),
                          frame_id)]

OrderAfterUntrack(frame_id) ==
  [first  |-> EraseValue(access_order.first, frame_id),
   latest |-> EraseValue(access_order.latest, frame_id)]

\* ------------------------------------------------------------------- actions
Becomes(b) ==
  /\ pages' = b.pages
  /\ free_list' = b.free_list
  /\ page_table' = b.page_table
  /\ replacer' = b.replacer
  /\ disk' = b.disk
  /\ next_page_id' = b.next_page_id

NewPage ==
  /\ ~latch_held
  /\ \E frame_id \in FrameChoices(Pool) :
       LET r == NewPgImp(Pool, frame_id)
       IN /\ r.ret = "page" => next_page_id < MaxPageId
          /\ Becomes(r.pool)
          /\ rt' = IF r.ret = "page" THEN TripAfterNew(r.page_id) ELSE rt
          /\ last' = IF r.pool # Pool
                        THEN Call("NewPage", VictimPin(Pool, frame_id))
                        ELSE last
  /\ UNCHANGED <<latch_held, flushall_pc, violations, extVars>>

FetchPage(page_id) ==
  /\ ~latch_held
  /\ HTHas(page_table, page_id) =>
       CanAccess(replacer, HTFind(page_table, page_id), MaxRefs)
  /\ \E frame_id \in FrameChoices(Pool) :
       LET r == FetchPgImp(Pool, page_id, frame_id)
           missed == ~HTHas(page_table, page_id)
       IN /\ Becomes(r.pool)
          /\ rt' = IF r.ret = "page" THEN TripAfterFetch(page_id, missed)
                                     ELSE TripAfterOther(page_id)
          /\ last' = IF r.pool # Pool
                        THEN Call("FetchPage",
                                  IF missed THEN VictimPin(Pool, frame_id)
                                            ELSE NoPin)
                        ELSE last
  /\ UNCHANGED <<latch_held, flushall_pc, violations, extVars>>

UnpinPage(page_id, is_dirty) ==
  /\ ~latch_held
  /\ LET r == UnpinPgImp(Pool, page_id, is_dirty)
     IN /\ Becomes(r.pool)
        /\ rt' = IF r.ret = "true"
                   THEN TripAfterUnpin(page_id, is_dirty,
                          r.pool.pages[HTFind(page_table, page_id)])
                   ELSE TripAfterOther(page_id)
        /\ last' = IF r.pool # Pool THEN Call("UnpinPage", NoPin) ELSE last
  /\ UNCHANGED <<latch_held, flushall_pc, violations, extVars>>

FlushPage(page_id) ==
  /\ ~latch_held
  /\ LET r == FlushPgImp(Pool, page_id)
     IN /\ Becomes(r.pool)
        /\ last' = IF r.pool # Pool THEN Call("FlushPage", NoPin) ELSE last
  /\ rt' = TripAfterOther(page_id)
  /\ UNCHANGED <<latch_held, flushall_pc, violations, extVars>>

DeletePage(page_id) ==
  /\ ~latch_held
  /\ LET r == DeletePgImp(Pool, page_id)
     IN /\ Becomes(r.pool)
        /\ last' = IF r.pool # Pool THEN Call("DeletePage", NoPin) ELSE last
  /\ rt' = TripAfterOther(page_id)
  /\ UNCHANGED <<latch_held, flushall_pc, violations, extVars>>

\* FlushAllPgsImp locks latch_ ...
FlushAllPages ==
  /\ ~latch_held
  /\ flushall_pc = "idle"
  /\ latch_held' = TRUE
  /\ flushall_pc' = "locked"
  /\ last' = Call("FlushAllPages", NoPin)
  /\ UNCHANGED <<pages, free_list, page_table, replacer, disk, next_page_id,
                 rt, violations, extVars>>

\* ... and the first pass of its loop calls FlushPgImp(pages_[0].GetPageId()),
\* whose scoped_lock locks latch_ again.  latch_ is a std::mutex, not a
\* recursive one, and the calling thread owns it: the thread waits for itself.
FlushAllCallsFlushPg ==
  /\ flushall_pc = "locked"
  /\ latch_held
  /\ flushall_pc' = "blocked"
  /\ UNCHANGED <<pages, free_list, page_table, replacer, disk, next_page_id,
                 latch_held, last, rt, violations, extVars>>

\* A caller that holds a pin on page_id writes bytes through GetData().
WriteData(page_id, bytes) ==
  /\ ~latch_held
  /\ HTHas(page_table, page_id)
  /\ LET frame_id == HTFind(page_table, page_id)
     IN /\ pages[frame_id].pin_count > 0
        /\ pages' = [pages EXCEPT ![frame_id].data = bytes]
  /\ rt' = TripAfterWrite(page_id)
  /\ last' = Call("WriteData", NoPin)
  /\ UNCHANGED <<free_list, page_table, replacer, disk, next_page_id,
                 latch_held, flushall_pc, violations, extVars>>

\* ============================================================================
\* The B+ tree index: b_plus_tree.cpp, b_plus_tree_internal_page.cpp and
\* b_plus_tree_leaf_page.cpp.
\*
\* An index page is [page_type, page_id, parent_page_id, next_page_id,
\* max_size, array]; array holds the pairs [key, value] of the slots
\* 0 .. GetSize() - 1, slot i of the code being array[i + 1], and the slots
\* past GetSize() are not kept.  The key of slot 0 of an internal page is
\* the unused one; in a page that was zeroed by the pool it is NoKey.
\*
\* b_plus_tree.cpp is written against a leaf page whose Remove returns
\* whether the key was there, whose SetKeyValue leaves the size alone (its
\* callers call IncreaseSize themselves) and which has TotalToLeft and
\* MoveAll.  The leaf page file at hand is an older one that b_plus_tree.cpp
\* does not compile against (its Remove returns void and names an undeclared
\* `size`, its SetKeyValue increases the size, it has no TotalToLeft and no
\* MoveAll); Init, KeyAt, ValueAt, Insert and MoveHalf are taken from it by
\* their effect, the other leaf operations are the ones of the index's
\* description.  b_plus_tree_page.cpp (IsLeafPage, IsRootPage, GetSize,
\* GetMinSize, ...) is described, not at hand.
\* ============================================================================

NoKey == 0
TreeKeys == 1 .. MaxTreeKey
TreeRids == 1 .. MaxRid

Least(S) == CHOOSE x \in S : \A y \in S : x <= y

\* B_PLUS_TREE_LEAF_PAGE_TYPE::Init
LeafInit(page_id, parent_id, max_size) ==
  [page_type |-> "LEAF_PAGE", page_id |-> page_id,
   parent_page_id |-> parent_id, next_page_id |-> INVALID_PAGE_ID,
   max_size |-> max_size, array |-> <<>>]

\* B_PLUS_TREE_INTERNAL_PAGE_TYPE::Init; an internal page has no
\* next_page_id_, the field stays INVALID_PAGE_ID.
InternalInit(page_id, parent_id, max_size) ==
  [page_type |-> "INTERNAL_PAGE", page_id |-> page_id,
   parent_page_id |-> parent_id, next_page_id |-> INVALID_PAGE_ID,
   max_size |-> max_size, array |-> <<>>]

IsLeafPage(page) == page.page_type = "LEAF_PAGE"

IsRootPage(page) == page.parent_page_id = INVALID_PAGE_ID

GetSize(page) == Len(page.array)

KeyAt(page, index) == page.array[index + 1].key

ValueAt(page, index) == page.array[index + 1].value

\* GetMinSize: half of max_size rounded up for a leaf, half of max_size + 1
\* rounded up for an internal page.
GetMinSize(page) ==
  IF IsLeafPage(page) THEN (page.max_size + 1) \div 2
                      ELSE (page.max_size + 2) \div 2

\* for (i = size; i > idx; i--) array_[i] = array_[i - 1]; array_[idx] = e
InsertSlot(array, idx, e) ==
  SubSeq(array, 1, idx) \o <<e>> \o SubSeq(array, idx + 1, Len(array))

\* The slots of array without slot idx, the later ones moved down by one.
EraseSlot(array, idx) ==
  SubSeq(array, 1, idx) \o SubSeq(array, idx + 2, Len(array))

\* Leaf Insert: the first slot whose key is not below key takes the pair.
LeafInsert(page, key, value) ==
  LET size == GetSize(page)
      idx == Least({i \in 0 .. (size - 1) : KeyAt(page, i) >= key}
                     \cup {size})
  IN  [page EXCEPT !.array = InsertSlot(@, idx, [key |-> key, value |-> value])]

\* Leaf SetKeyValue followed by IncreaseSize(1), index being GetSize().
LeafAppend(page, key, value) ==
  [page EXCEPT !.array = Append(@, [key |-> key, value |-> value])]

LeafHasKey(page, key) ==
  \E i \in 0 .. (GetSize(page) - 1) : KeyAt(page, i) = key

\* Leaf Remove when the key is in the page (it answers false and changes
\* nothing when it is not).
LeafRemove(page, key) ==
  LET idx == Least({i \in 0 .. (GetSize(page) - 1) : KeyAt(page, i) = key})
  IN  [page EXCEPT !.array = EraseSlot(@, idx)]

\* Leaf MoveHalf(new_page, idx): the pairs idx .. size - 1 go to the slots
\* 0 .. of new_page and leave this page; the result is <<page, new_page>>.
LeafMoveHalf(page, new_page, idx) ==
  <<[page EXCEPT !.array = SubSeq(@, 1, idx)],
    [new_page EXCEPT !.array = SubSeq(page.array, idx + 1, GetSize(page))]>>

\* Leaf MoveAll(new_page, idx), idx being new_page's size: every pair goes
\* behind the pairs of new_page; the result is <<page, new_page>>.
LeafMoveAll(page, new_page, idx) ==
  <<[page EXCEPT !.array = <<>>],
    [new_page EXCEPT !.array = SubSeq(@, 1, idx) \o page.array]>>

\* TotalToLeft of a leaf and of an internal page: slot 0 is dropped.
TotalToLeft(page) == [page EXCEPT !.array = Tail(@)]

\* Internal TotalToRight: every slot moves up by one and slot 0 keeps its
\* old content.
TotalToRight(page) == [page EXCEPT !.array = <<@[1]>> \o @]

SetKeyAt(page, index, key) == [page EXCEPT !.array[index + 1].key = key]

SetValueAt(page, index, value) ==
  [page EXCEPT !.array[index + 1].value = value]

\* SetKeyAt(GetSize(), key); SetValueAt(GetSize(), value); IncreaseSize(1)
InternalAppend(page, key, value) ==
  [page EXCEPT !.array = Append(@, [key |-> key, value |-> value])]

\* Internal Insert: the search for the slot starts at slot 1.
InternalInsert(page, key, value) ==
  LET size == GetSize(page)
      idx == Least({i \in 1 .. (size - 1) : KeyAt(page, i) >= key}
                     \cup {size})
  IN  [page EXCEPT !.array = InsertSlot(@, idx, [key |-> key, value |-> value])]

\* Internal Remove looks for key in the slots 1 .. size - 1.
InternalHasKey(page, key) ==
  \E i \in 1 .. (GetSize(page) - 1) : KeyAt(page, i) = key

InternalRemove(page, key) ==
  LET idx == Least({i \in 1 .. (GetSize(page) - 1) : KeyAt(page, i) = key})
  IN  [page EXCEPT !.array = EraseSlot(@, idx)]

\* FindValueIndex: the first slot holding value, -1 when there is none.
FindValueIndex(page, value) ==
  LET found == {i \in 0 .. (GetSize(page) - 1) : ValueAt(page, i) = value}
  IN  IF found = {} THEN 0 - 1 ELSE Least(found)

\* Internal MoveAll(new_page, idx), idx being new_page's size: the slots
\* 1 .. size - 1 go behind the slots of new_page; <<page, new_page>>.
InternalMoveAll(page, new_page, idx) ==
  <<[page EXCEPT !.array = <<>>],
    [new_page EXCEPT !.array = SubSeq(@, 1, idx) \o Tail(page.array)]>>

\* ------------------------------------------------------------------ the tree
\* A tree is [root_page_id, leaf_max_size, internal_max_size] with the state
\* of what it runs on: pages, the index pages by page id (a page that was
\* handed to DeletePage is no longer in it), next_page_id, the id the next
\* NewPage gives, deleted_page_set, the transaction's set of pages to
\* delete, header_page, the root ids of the records that the header page
\* holds under index_name_, and fault.  fault names the point where a call
\* left the code's
\* normal path: an exception that ended the call half way, or the fetch of
\* a page id that DeletePage was called on.  What such a fetch returns
\* depends on what the pool kept of the page; the call is followed up to
\* the fetch, which changes no page of the tree, and no further.
BPlusTree(leaf_max_size, internal_max_size) ==
  [root_page_id |-> INVALID_PAGE_ID,
   leaf_max_size |-> leaf_max_size,
   internal_max_size |-> internal_max_size,
   pages |-> <<>>,
   next_page_id |-> 0,
   deleted_page_set |-> {},
   header_page |-> <<>>,
   fault |-> "none"]

IsEmpty(t) == t.root_page_id = INVALID_PAGE_ID

\* HeaderPage::InsertRecord and UpdateRecord, on the records of one name:
\* a record is added when the name has none, and the record of the name
\* is given the root id when there is one.
InsertRecord(records, root_id) ==
  IF records = <<>> THEN <<root_id>> ELSE records

UpdateRecord(records, root_id) ==
  IF records = <<>> THEN records
  ELSE [i \in DOMAIN records |-> root_id]

\* UpdateRootPageId(insert_record)
UpdateRootPageId(t, insert_record) ==
  [t EXCEPT !.header_page =
     IF insert_record # 0 THEN InsertRecord(@, t.root_page_id)
                          ELSE UpdateRecord(@, t.root_page_id)]

Resident(t, page_id) == page_id \in DOMAIN t.pages

\* The page is written through the pointer FetchPage / NewPage returned.
SetPage(t, page) == [t EXCEPT !.pages = PutEntry(@, page.page_id, page)]

SetParentPageId(t, page_id, parent_id) ==
  [t EXCEPT !.pages[page_id].parent_page_id = parent_id]

Fault(t, what) == [t EXCEPT !.fault = what]

\* GetLeafPage, the descent: the child left of the first key above `key`,
\* the last child when no key is above it.
NextPageId(page, key) ==
  LET above == {i \in 1 .. (GetSize(page) - 1) : KeyAt(page, i) > key}
  IN  IF above = {} THEN ValueAt(page, GetSize(page) - 1)
                    ELSE ValueAt(page, Least(above) - 1)

RECURSIVE LeafFrom(_, _, _)
LeafFrom(t, page_id, key) ==
  IF IsLeafPage(t.pages[page_id]) THEN page_id
  ELSE LeafFrom(t, NextPageId(t.pages[page_id], key), key)

GetLeafPage(t, key) == LeafFrom(t, t.root_page_id, key)

\* GetValue: the values pushed into *result; it returns true exactly when
\* result is not empty.  Nothing is pushed on an empty tree, where the call
\* does not come back the normal way (GetValueCall).
GetValue(t, key) ==
  IF IsEmpty(t) THEN <<>>
  ELSE LET leaf_page == t.pages[GetLeafPage(t, key)]
           at == {i \in 0 .. (GetSize(leaf_page) - 1) :
                    KeyAt(leaf_page, i) = key}
       IN  IF at = {} THEN <<>> ELSE <<ValueAt(leaf_page, Least(at))>>

\* InsertInParent, lines 251-266: the old page was the root.
NewRoot(t, old_id, key, new_id) ==
  LET root_id == t.next_page_id
      new_root_page ==
        [InternalInit(root_id, INVALID_PAGE_ID, t.internal_max_size)
           EXCEPT !.array = <<[key |-> NoKey, value |-> old_id],
                              [key |-> key, value |-> new_id]>>]
      t1 == [SetPage(t, new_root_page) EXCEPT !.next_page_id = @ + 1,
                                              !.root_page_id = root_id]
  IN  SetParentPageId(SetParentPageId(UpdateRootPageId(t1, 0),
                                      old_id, root_id), new_id, root_id)

\* InsertInParent, lines 294-310: every child of the slots start_index ..
\* of the parent is fetched and given the new page as its parent.
RECURSIVE Reparent(_, _, _)
Reparent(t, children, parent_id) ==
  IF children = <<>> THEN t
  ELSE IF ~Resident(t, Head(children).value)
         THEN Fault(t, "fetch of a deleted page")
         ELSE Reparent(SetParentPageId(t, Head(children).value, parent_id),
                       Tail(children), parent_id)

\* new_split_page_size of InsertInParent.
SplitSize(internal_max_size) == internal_max_size \div 2 + 1

RECURSIVE InsertInParent(_, _, _, _)
InsertInParent(t, old_id, key, new_id) ==
  IF IsRootPage(t.pages[old_id]) THEN NewRoot(t, old_id, key, new_id)
  ELSE
    LET parent_page_id == t.pages[old_id].parent_page_id IN
    IF ~Resident(t, parent_page_id) THEN Fault(t, "fetch of a deleted page")
    ELSE
      LET parent_before == t.pages[parent_page_id] IN
      IF GetSize(parent_before) > parent_before.max_size
        THEN Fault(t, "logic_error: internal page over max size")
      ELSE
      LET parent_inter_page == InternalInsert(parent_before, key, new_id)
          t1 == SetParentPageId(SetPage(t, parent_inter_page),
                                new_id, parent_page_id)
      IN
      IF GetSize(parent_inter_page) <= parent_inter_page.max_size THEN t1
      ELSE
        LET new_split_page_id == t1.next_page_id
            new_split_page_size == SplitSize(t1.internal_max_size)
            start_index == GetSize(parent_inter_page) - new_split_page_size
            moved == SubSeq(parent_inter_page.array, start_index + 1,
                            GetSize(parent_inter_page))
            new_internal_split_page ==
              [InternalInit(new_split_page_id,
                            parent_inter_page.parent_page_id,
                            t1.internal_max_size)
                 EXCEPT !.array = moved]
            t2 == [SetPage(t1, new_internal_split_page)
                     EXCEPT !.next_page_id = @ + 1]
            t3 == Reparent(t2, moved, new_split_page_id)
            \* SetSize(internal_max_size_ - new_split_page_size + 1)
            t4 == [t3 EXCEPT !.pages[parent_page_id].array =
                     SubSeq(@, 1, t1.internal_max_size
                                    - new_split_page_size + 1)]
        IN  IF t3.fault # "none" THEN t3
            ELSE InsertInParent(t4, parent_page_id,
                                KeyAt(new_internal_split_page, 0),
                                new_split_page_id)

\* BPlusTree::Insert: [tree, result].
StartNewTree(t, key, value) ==
  LET leaf_page == LeafAppend(LeafInit(t.next_page_id, INVALID_PAGE_ID,
                                       t.leaf_max_size), key, value)
  IN  SetPage(UpdateRootPageId(
                [t EXCEPT !.root_page_id = t.next_page_id,
                          !.next_page_id = @ + 1], 1),
              leaf_page)

\* Insert, lines 225-239: the leaf has reached max_size and is split.
SplitLeaf(t, leaf_page) ==
  LET new_page_id == t.next_page_id
      new_leaf_page ==
        [LeafInit(new_page_id, leaf_page.parent_page_id, t.leaf_max_size)
           EXCEPT !.next_page_id = leaf_page.next_page_id]
      halves == LeafMoveHalf([leaf_page EXCEPT !.next_page_id = new_page_id],
                             new_leaf_page, leaf_page.max_size \div 2)
      t1 == [SetPage(SetPage(t, halves[1]), halves[2])
               EXCEPT !.next_page_id = @ + 1]
  IN  InsertInParent(t1, leaf_page.page_id, KeyAt(halves[2], 0), new_page_id)

\* Insert, lines 202-244, on the leaf that GetLeafPage has returned.
InsertIntoLeaf(t, leaf_id, key, value) ==
    LET before == t.pages[leaf_id] IN
    IF LeafHasKey(before, key) THEN [tree |-> t, result |-> FALSE]
    ELSE IF GetSize(before) >= before.max_size
      THEN [tree |-> Fault(t, "logic_error: leaf page at max size"),
            result |-> FALSE]
    ELSE
      LET leaf_page == LeafInsert(before, key, value) IN
      IF GetSize(leaf_page) < leaf_page.max_size
        THEN [tree |-> SetPage(t, leaf_page), result |-> TRUE]
        ELSE [tree |-> SplitLeaf(t, leaf_page), result |-> TRUE]

BPlusTreeInsert(t, key, value) ==
  IF IsEmpty(t) THEN [tree |-> StartNewTree(t, key, value), result |-> TRUE]
  ELSE InsertIntoLeaf(t, GetLeafPage(t, key), key, value)

\* GetPeerNode: <<l_peer_id, r_peer_id>>, index being the slot of the page
\* in its parent.
GetPeerNode(parent_page, index) ==
  <<IF index # 0 THEN ValueAt(parent_page, index - 1) ELSE INVALID_PAGE_ID,
    IF index # GetSize(parent_page) - 1
      THEN ValueAt(parent_page, index + 1) ELSE INVALID_PAGE_ID>>

AddIntoDeletedPageSet(t, page_id) ==
  [t EXCEPT !.deleted_page_set = @ \cup {page_id}]

\* ReDistribution(left, right, parent, is_left): one pair moves from the
\* peer to the page, through the parent's key between them.
ReDistribution(t, left_id, right_id, parent_id, is_left) ==
  LET left == t.pages[left_id]
      right == t.pages[right_id]
      parent == t.pages[parent_id]
      idx == FindValueIndex(parent, right_id)
      key_between == KeyAt(parent, idx)
      last_l == GetSize(left) - 1
      left_less == [left EXCEPT !.array = SubSeq(@, 1, last_l)]
  IN
  IF is_left
    THEN IF IsLeafPage(left)
      THEN SetPage(SetPage(SetPage(t, left_less),
                     LeafInsert(right, KeyAt(left, last_l),
                                ValueAt(left, last_l))),
                   SetKeyAt(parent, idx, KeyAt(left, last_l)))
      ELSE SetPage(SetPage(SetPage(t, left_less),
                     SetValueAt(SetKeyAt(TotalToRight(right), 1, key_between),
                                0, ValueAt(left, last_l))),
                   SetKeyAt(parent, idx, KeyAt(left, last_l)))
    ELSE IF IsLeafPage(left)
      THEN SetPage(SetPage(SetPage(t, TotalToLeft(right)),
                     LeafAppend(left, KeyAt(right, 0), ValueAt(right, 0))),
                   SetKeyAt(parent, idx, KeyAt(TotalToLeft(right), 0)))
      ELSE SetPage(SetPage(SetPage(t, TotalToLeft(right)),
                     InternalAppend(left, key_between, ValueAt(right, 0))),
                   SetKeyAt(parent, idx, KeyAt(right, 1)))

\* DeleteEntry, lines 436-471 and 498-532: which peer is taken and for what.
\* A leaf merges with a peer when the two sizes are below max_size together,
\* an internal page when they are at most max_size.
Fits(page, peer) ==
  IF IsLeafPage(page) THEN GetSize(peer) + GetSize(page) < page.max_size
                      ELSE GetSize(peer) + GetSize(page) <= page.max_size

Choice(t, page, peers) ==
  LET has_l == peers[1] # INVALID_PAGE_ID
      has_r == peers[2] # INVALID_PAGE_ID
  IN  IF has_l /\ Fits(page, t.pages[peers[1]]) THEN "merge left"
      ELSE IF has_r /\ Fits(page, t.pages[peers[2]]) THEN "merge right"
      ELSE IF has_l /\ GetSize(t.pages[peers[1]]) > GetMinSize(page)
        THEN "borrow left"
      ELSE IF has_r /\ GetSize(t.pages[peers[2]]) > GetMinSize(page)
        THEN "borrow right"
      ELSE "none"

\* MergePage up to its call of DeleteEntry: right is emptied into left.
MergeInto(t, left_id, right_id, key_between) ==
  LET left == t.pages[left_id]
      right == t.pages[right_id]
      leaves == LeafMoveAll(right, left, GetSize(left))
      with_between == InternalAppend(left, key_between, ValueAt(right, 0))
      inner == InternalMoveAll(right, with_between, GetSize(with_between))
  IN  IF IsLeafPage(left)
        THEN SetPage(SetPage(t, leaves[1]),
                     [leaves[2] EXCEPT !.next_page_id = right.next_page_id])
        ELSE SetPage(SetPage(t, inner[1]), inner[2])

\* DeleteEntry, lines 366-385: the key leaves the page.
HasKey(page, key) ==
  IF IsLeafPage(page) THEN LeafHasKey(page, key)
                      ELSE InternalHasKey(page, key)

RemoveKey(page, key) ==
  IF IsLeafPage(page) THEN LeafRemove(page, key)
                      ELSE InternalRemove(page, key)

\* DeleteEntry, lines 397-408: the only child of the root is the new root.
PromoteChild(t, old_root_page) ==
  LET child_id == ValueAt(old_root_page, 0) IN
  IF ~Resident(t, child_id) THEN Fault(t, "fetch of a deleted page")
  ELSE UpdateRootPageId(
         AddIntoDeletedPageSet(
           SetParentPageId([t EXCEPT !.root_page_id = child_id],
                           child_id, INVALID_PAGE_ID),
           old_root_page.page_id), 0)

RECURSIVE DeleteEntry(_, _, _)
RECURSIVE MergePage(_, _, _, _)

MergePage(t, left_id, right_id, parent_id) ==
  LET parent == t.pages[parent_id]
      idx == FindValueIndex(parent, right_id)
      key_between == KeyAt(parent, idx)
  IN  DeleteEntry(AddIntoDeletedPageSet(
                    MergeInto(t, left_id, right_id, key_between), right_id),
                  parent_id, key_between)

\* DeleteEntry, lines 410-560: the page is below its minimum size.
Rebalance(t, page) ==
  LET parent_id == page.parent_page_id IN
  IF ~Resident(t, parent_id) THEN Fault(t, "fetch of a deleted page")
  ELSE
    LET parent == t.pages[parent_id]
        index == FindValueIndex(parent, page.page_id)
    IN
    IF index = 0 - 1 THEN Fault(t, "range_error: Can not find value.")
    ELSE
      LET peers == GetPeerNode(parent, index) IN
      IF peers[1] = INVALID_PAGE_ID /\ peers[2] = INVALID_PAGE_ID
        THEN Fault(t, "logic_error: no peer nodes")
      ELSE IF \E i \in 1 .. 2 :
                peers[i] # INVALID_PAGE_ID /\ ~Resident(t, peers[i])
        THEN Fault(t, "fetch of a deleted page")
      ELSE
        LET choice == Choice(t, page, peers) IN
        CASE choice = "merge left" ->
               MergePage(t, peers[1], page.page_id, parent_id)
          [] choice = "merge right" ->
               MergePage(t, page.page_id, peers[2], parent_id)
          [] choice = "borrow left" ->
               ReDistribution(t, peers[1], page.page_id, parent_id, TRUE)
          [] choice = "borrow right" ->
               ReDistribution(t, page.page_id, peers[2], parent_id, FALSE)
          [] OTHER -> Fault(t, "logic_error: Tree structure is wrong!")

DeleteEntry(t, page_id, key) ==
  IF ~HasKey(t.pages[page_id], key) THEN t
  ELSE
    LET page == RemoveKey(t.pages[page_id], key)
        t1 == SetPage(t, page)
    IN
    IF IsRootPage(page) /\ IsLeafPage(page) /\ GetSize(page) = 0
      THEN [AddIntoDeletedPageSet(t1, page_id)
              EXCEPT !.root_page_id = INVALID_PAGE_ID]
    ELSE IF IsRootPage(page) /\ (GetSize(page) > 1 \/ IsLeafPage(page))
      THEN t1
    ELSE IF IsRootPage(page) /\ GetSize(page) = 1
      THEN PromoteChild(t1, page)
    ELSE IF GetSize(page) < GetMinSize(page) THEN Rebalance(t1, page)
    ELSE t1

\* Remove, lines 354-358: buffer_pool_manager_->DeletePage(id) for every id
\* of the deleted page set, which is then cleared.
DeletePages(t) ==
  [t EXCEPT !.pages = [p \in (DOMAIN @) \ t.deleted_page_set |-> @[p]],
            !.deleted_page_set = {}]

\* BPlusTree::Remove.  A call that an exception ends does not reach the
\* DeletePage calls.
BPlusTreeRemove(t, key) ==
  IF IsEmpty(t) THEN t
  ELSE LET t1 == DeleteEntry(t, GetLeafPage(t, key), key)
       IN  IF t1.fault = "none" THEN DeletePages(t1) ELSE t1

\* The tree after Insert(keys[1], keys[1]), Insert(keys[2], keys[2]), ...
RECURSIVE InsertKeys(_, _)
InsertKeys(t, keys) ==
  IF keys = <<>> THEN t
  ELSE InsertKeys(BPlusTreeInsert(t, Head(keys), Head(keys)).tree, Tail(keys))

\* GetValue as a call.  Lines 35-37 take the root id latch and go into
\* GetLeafPage without asking IsEmpty(): on an empty tree line 68 is
\* FetchPage(INVALID_PAGE_ID), which finds no such page in the page table,
\* takes a frame for it and hands back bytes that are no tree page, and
\* lines 69-115 then read them as one.  The call is followed up to that
\* fetch.
GetValueCall(t, key) ==
  IF ~Resident(t, t.root_page_id)
    THEN [found |-> FALSE, result |-> <<>>,
          fault |-> "fetch of INVALID_PAGE_ID"]
    ELSE [found |-> GetValue(t, key) # <<>>, result |-> GetValue(t, key),
          fault |-> "none"]

\* ------------------------------------------------------------ the iterator
\* An IndexIterator is [page, idx]: the leaf it keeps read-latched and
\* pinned, NullPage for nullptr, and the slot it stands at.  leafpage_ is
\* the page's data; operator++ takes it from the Page pointer itself, which
\* is the same address, data_ being the first member of Page.
NullPage == INVALID_PAGE_ID

IndexIterator(page, idx) == [page |-> page, idx |-> idx]

RECURSIVE RightmostFrom(_, _)
RightmostFrom(t, page_id) ==
  IF IsLeafPage(t.pages[page_id]) THEN page_id
  ELSE RightmostFrom(t, ValueAt(t.pages[page_id],
                                GetSize(t.pages[page_id]) - 1))

RECURSIVE LeftmostLeaf(_, _)
LeftmostLeaf(t, page_id) ==
  IF IsLeafPage(t.pages[page_id]) THEN page_id
  ELSE LeftmostLeaf(t, ValueAt(t.pages[page_id], 0))

\* End(): one past the last entry of the rightmost leaf; the iterator of
\* nullptr, idx being 0 by default, on an empty tree.
End(t) ==
  IF t.root_page_id = INVALID_PAGE_ID THEN IndexIterator(NullPage, 0)
  ELSE LET page_id == RightmostFrom(t, t.root_page_id)
       IN  IndexIterator(page_id, GetSize(t.pages[page_id]))

\* Begin(): slot 0 of the leftmost leaf, End() on an empty tree.
Begin(t) ==
  IF IsEmpty(t) THEN End(t)
  ELSE IndexIterator(LeftmostLeaf(t, t.root_page_id), 0)

\* Begin(key), on a tree that is not empty: the slot of key in its leaf,
\* idx staying -1, which is the logic_error of line 735, when it is not
\* there.
BeginAt(t, key) ==
  LET page_id == GetLeafPage(t, key)
      at == {i \in 0 .. (GetSize(t.pages[page_id]) - 1) :
               KeyAt(t.pages[page_id], i) = key}
  IN  IndexIterator(page_id, IF at = {} THEN 0 - 1 ELSE Least(at))

\* operator==: page_ == nullptr || (same page id && same idx).
IteratorEquals(it, itr) ==
  it.page = NullPage \/ (it.page = itr.page /\ it.idx = itr.idx)

\* operator*: GetItem(idx_).
Dereference(t, it) == t.pages[it.page].array[it.idx + 1]

\* operator++: on from the last entry of a leaf that has a next leaf to
\* slot 0 of that leaf, one slot on otherwise.
Increment(t, it) ==
  LET leafpage == t.pages[it.page] IN
  IF it.idx >= GetSize(leafpage) - 1
       /\ leafpage.next_page_id # INVALID_PAGE_ID
    THEN IndexIterator(leafpage.next_page_id, 0)
    ELSE IndexIterator(it.page, it.idx + 1)

\* for (it = from; !(it == End()); ++it) yield *it, the pairs it yields
\* in the order it yields them.  left bounds the walk; a walk that leaves
\* the pages of the tree or the entries of a leaf ends with the pair NoKey.
RECURSIVE IterateFrom(_, _, _)
IterateFrom(t, it, left) ==
  IF IteratorEquals(it, End(t)) THEN <<>>
  ELSE IF left = 0 \/ ~Resident(t, it.page)
            \/ it.idx + 1 \notin DOMAIN t.pages[it.page].array
    THEN <<[key |-> NoKey, value |-> NoKey]>>
    ELSE <<Dereference(t, it)>> \o IterateFrom(t, Increment(t, it), left - 1)

\* ------------------------------------------------- what starts out idle
\* No executor has been constructed.
NoRow == 0

NoScan ==
  [state |-> "none", isolation |-> "none", rows |-> 0, table_iter |-> 0,
   table_lock_set |-> {}, shared_row_lock_set |-> <<>>, lock_requests |-> 0,
   out |-> [call |-> "none", lock |-> "none", at_end |-> FALSE,
            result |-> "none", row |-> NoRow]]

\* No thread is in a call and no latch is taken.
Threads == 1 .. MaxThreads

NoThread == 0

CrabPageIds == 0 .. (MaxCrabPages - 1)

FreeLatch == [readers |-> {}, writer |-> NoThread]

\* txn[thread] is the call the thread is in (pc, op, key and the locals of
\* GetLeafPage: next_page_id, pre_page, page), the page set of its
\* transaction, and what its last call gave back.  `expected` is what that
\* call has to give back by the keys in the tree at the moment it acted on
\* the leaf; `unlatched` are the pages it wrote without holding their write
\* latch.
IdleTxn ==
  [pc |-> "idle", op |-> "none", key |-> NoKey,
   next_page_id |-> INVALID_PAGE_ID, pre_page |-> NullPage,
   page |-> NullPage, page_set |-> <<>>, first |-> TRUE, calls |-> 0,
   result |-> "none", expected |-> "none", unlatched |-> {}, idx |-> 0]

\* ------------------------------------------------------- latch crabbing
\* A ReaderWriterLatch is [readers, writer]: the threads that hold it
\* shared and the thread that holds it exclusive.  A thread gets it shared
\* when no thread holds it exclusive, exclusive when no thread holds it.
CanRLock(latch) == latch.writer = NoThread

CanWLock(latch) == latch.writer = NoThread /\ latch.readers = {}

RLock(latch, thread) == [latch EXCEPT !.readers = @ \cup {thread}]

RUnlock(latch, thread) == [latch EXCEPT !.readers = @ \ {thread}]

WLock(latch, thread) == [latch EXCEPT !.writer = thread]

WUnlock(latch) == [latch EXCEPT !.writer = NoThread]

\* The latches and pins as one value l, for the functions that release
\* several of them.
Latches(root, page_latches, pins) ==
  [root_page_id_latch |-> root, rwlatch |-> page_latches, pin_count |-> pins]

\* FetchPage and UnpinPage of an index page, as far as its pin count goes;
\* UnpinPage of a page that is not pinned changes nothing.
Pin(l, page_id) == [l EXCEPT !.pin_count[page_id] = @ + 1]

Unpin(l, page_id) ==
  [l EXCEPT !.pin_count[page_id] = IF @ > 0 THEN @ - 1 ELSE @]

\* IsPageSafe.
IsPageSafe(page, op) ==
  IF op = "SEARCH" THEN TRUE
  ELSE IF op = "INSERT"
    THEN IF IsLeafPage(page) THEN GetSize(page) < page.max_size - 1
                             ELSE GetSize(page) < page.max_size
  ELSE IF op = "DELETE"
    THEN IF IsRootPage(page)
           THEN IF IsLeafPage(page) THEN GetSize(page) > 1
                                    ELSE GetSize(page) > 2
           ELSE GetSize(page) > GetMinSize(page)
  ELSE FALSE

\* ReleaseWLatches: the page set is emptied from the front; nullptr stands
\* for the root id latch, every other entry is write-unlatched and unpinned.
RECURSIVE ReleaseWLatches(_, _)
ReleaseWLatches(l, page_set) ==
  IF page_set = <<>> THEN l
  ELSE ReleaseWLatches(
         IF Head(page_set) = NullPage
           THEN [l EXCEPT !.root_page_id_latch = WUnlock(@)]
           ELSE Unpin([l EXCEPT !.rwlatch[Head(page_set)] = WUnlock(@)],
                      Head(page_set)),
         Tail(page_set))

\* DeleteEntry, lines 410-433, level by level: for every page that the
\* removal of key from page_id leaves below its minimum, from the leaf
\* upwards, the parent that GetPeerNode and line 433 fetch and the peers
\* that lines 422-431 fetch and write-latch.
RECURSIVE Underflows(_, _, _)
Underflows(t, page_id, key) ==
  IF ~HasKey(t.pages[page_id], key) THEN <<>>
  ELSE
    LET page == RemoveKey(t.pages[page_id], key)
        t1 == SetPage(t, page)
        parent_id == page.parent_page_id
    IN
    IF IsRootPage(page) \/ GetSize(page) >= GetMinSize(page)
         \/ ~Resident(t, parent_id)
      THEN <<>>
    ELSE
      LET parent == t.pages[parent_id]
          index == FindValueIndex(parent, page_id)
      IN
      IF index = 0 - 1 THEN <<>>
      ELSE
        LET peers == GetPeerNode(parent, index)
            held == {peers[1], peers[2]} \ {INVALID_PAGE_ID}
            level == [parent |-> parent_id, peers |-> held]
            choice == Choice(t1, page, peers)
            key_between(right_id) ==
              KeyAt(parent, FindValueIndex(parent, right_id))
            merged(left_id, right_id) ==
              AddIntoDeletedPageSet(
                MergeInto(t1, left_id, right_id, key_between(right_id)),
                right_id)
        IN
        IF held = {} \/ \E peer \in held : ~Resident(t, peer) THEN <<>>
        ELSE IF choice = "merge left"
          THEN <<level>> \o Underflows(merged(peers[1], page_id), parent_id,
                                       key_between(page_id))
        ELSE IF choice = "merge right"
          THEN <<level>> \o Underflows(merged(page_id, peers[2]), parent_id,
                                       key_between(peers[2]))
        ELSE <<level>>

\* DeleteEntry called on the leaf: whether the call passes a
\* ReleaseWLatches before it returns.  Lines 372-374, 386-408 and 559 do;
\* a leaf that is not the root and keeps its minimum size falls through
\* the test of line 410 to the end of the function.
DeleteEntryReleases(t, page_id, key) ==
  LET page == RemoveKey(t.pages[page_id], key) IN
  \/ ~HasKey(t.pages[page_id], key)
  \/ IsRootPage(page)
  \/ GetSize(page) < GetMinSize(page)

\* The state after construction, replacer_k being k.
InitPool(k, trip, call) ==
  /\ scan = NoScan
  /\ root_page_id_latch = FreeLatch
  /\ rwlatch = [page_id \in CrabPageIds |-> FreeLatch]
  /\ pin_count = [page_id \in CrabPageIds |-> 0]
  /\ txn = [thread \in Threads |-> IdleTxn]
  /\ pages = [f \in FrameIds |-> FreshPage]
  /\ free_list = [i \in 1 .. PoolSize |-> i - 1]
  /\ page_table = NewTable(BucketSize)
  /\ replacer = NewReplacer(PoolSize, k)
  /\ disk = [p \in PageIds |-> ZeroData]
  /\ next_page_id = 0
  /\ latch_held = FALSE
  /\ flushall_pc = "idle"
  /\ last = call
  /\ rt = trip
  /\ violations = 0
  /\ access_order = NoOrder

InitWith(k, trip, call) ==
  /\ InitPool(k, trip, call)
  /\ table = NewTable(BucketSize)
  /\ shadow = NoPairs
  /\ tree = BPlusTree(2, 3)
  /\ tree_pairs = NoPairs

Init == \E k \in 2 .. MaxK : InitWith(k, TripOff, NoCall)

\* The callers of the pool: FetchPage is called with page ids that
\* AllocatePage has handed out.
Next ==
  \/ NewPage
  \/ \E page_id \in 0 .. (next_page_id - 1) : FetchPage(page_id)
  \/ \E page_id \in PageIds, is_dirty \in BOOLEAN :
       UnpinPage(page_id, is_dirty)
  \/ \E page_id \in PageIds \cup {INVALID_PAGE_ID} : FlushPage(page_id)
  \/ \E page_id \in PageIds : DeletePage(page_id)
  \/ FlushAllPages
  \/ FlushAllCallsFlushPg

Spec == Init /\ [][Next]_vars

InitData == \E k \in 2 .. MaxK : InitWith(k, NoTrip, CallOff)

NextData ==
  \/ NewPage
  \/ \E page_id \in 0 .. (next_page_id - 1) : FetchPage(page_id)
  \/ \E page_id \in PageIds, is_dirty \in BOOLEAN :
       UnpinPage(page_id, is_dirty)
  \/ \E page_id \in PageIds \cup {INVALID_PAGE_ID} : FlushPage(page_id)
  \/ \E page_id \in PageIds : DeletePage(page_id)
  \/ \E page_id \in PageIds, bytes \in Data : WriteData(page_id, bytes)

SpecData == InitData /\ [][NextData]_vars

\* ============================================================================
\* The replacer on its own
\* ============================================================================

CallRecordAccess(frame_id) ==
  /\ CanAccess(replacer, frame_id, MaxAccess)
  /\ replacer' = RecordAccess(replacer, frame_id)
  /\ access_order' = OrderAfterAccess(replacer, frame_id)
  /\ UNCHANGED <<tableVars, treeVars, scanVars, crabVars>>
  /\ last' = IF replacer' # replacer THEN Call("RecordAccess", NoPin)
                                       ELSE last
  /\ UNCHANGED <<bpmVars, violations>>

CallSetEvictable(frame_id, set_evictable) ==
  /\ replacer' = SetEvictable(replacer, frame_id, set_evictable)
  /\ last' = IF replacer' # replacer THEN Call("SetEvictable", NoPin)
                                       ELSE last
  /\ UNCHANGED <<bpmVars, violations, extVars>>

\* Remove on a tracked frame that is not evictable is outside the caller
\* contract; violations counts such calls and at most MaxViolations are made.
OutsideContract(r, frame_id) ==
  /\ ~InvalidFrame(r, frame_id)
  /\ frame_id \in Tracked(r)
  /\ ~r.entries[frame_id].evictable

CallRemove(frame_id) ==
  /\ OutsideContract(replacer, frame_id) => violations < MaxViolations
  /\ violations' = IF OutsideContract(replacer, frame_id)
                     THEN violations + 1 ELSE violations
  /\ replacer' = Remove(replacer, frame_id)
  /\ access_order' = IF InvalidFrame(replacer, frame_id)
                       THEN access_order ELSE OrderAfterUntrack(frame_id)
  /\ UNCHANGED <<tableVars, treeVars, scanVars, crabVars>>
  /\ last' = IF replacer' # replacer THEN Call("Remove", NoPin) ELSE last
  /\ UNCHANGED bpmVars

CallEvict ==
  /\ replacer' = Evict(replacer).r
  /\ access_order' = IF Evict(replacer).ok
                       THEN OrderAfterUntrack(Evict(replacer).frame_id)
                       ELSE access_order
  /\ UNCHANGED <<tableVars, treeVars, scanVars, crabVars>>
  /\ last' = IF Evict(replacer).ok THEN Call("Evict", NoPin) ELSE last
  /\ UNCHANGED <<bpmVars, violations>>

InitReplacer == \E k \in 1 .. MaxReplacerK : InitWith(k, TripOff, NoCall)

NextReplacer ==
  \/ \E frame_id \in 0 .. (PoolSize + 1) : CallRecordAccess(frame_id)
  \/ \E frame_id \in 0 .. (PoolSize + 1), set_evictable \in BOOLEAN :
       CallSetEvictable(frame_id, set_evictable)
  \/ \E frame_id \in 0 .. (PoolSize + 1) : CallRemove(frame_id)
  \/ CallEvict

SpecReplacer == InitReplacer /\ [][NextReplacer]_vars

\* ============================================================================
\* The hash table on its own.  Find, Remove and Insert hold the table's latch_
\* from their first to their last statement, so the calls of several threads
\* take effect one after the other, in any order.
\* ============================================================================

TableKeys == 0 .. MaxKey
TableValues == 0 .. MaxValue

TableInsert(key, value) ==
  /\ table' = HTInsert(table, key, value)
  /\ shadow' = PutEntry(shadow, key, value)
  /\ last' = Call("Insert", NoPin)
  /\ UNCHANGED <<bpmVars, replacer, violations, access_order, treeVars,
                 scanVars, crabVars>>

TableRemove(key) ==
  /\ table' = HTRemove(table, key)
  /\ shadow' = DropEntry(shadow, key)
  /\ last' = IF HTHas(table, key) THEN Call("Remove", NoPin) ELSE last
  /\ UNCHANGED <<bpmVars, replacer, violations, access_order, treeVars,
                 scanVars, crabVars>>

InitTable ==
  \E bucket_size \in 1 .. MaxBucket :
    /\ InitPool(MaxK, TripOff, NoCall)
    /\ table = NewTable(bucket_size)
    /\ shadow = NoPairs
    /\ tree = BPlusTree(2, 3)
    /\ tree_pairs = NoPairs

NextTable ==
  \/ \E key \in TableKeys, value \in TableValues : TableInsert(key, value)
  \/ \E key \in TableKeys : TableRemove(key)

SpecTable == InitTable /\ [][NextTable]_vars

\* ============================================================================
\* The B+ tree on its own, one caller: Insert and Remove calls follow one
\* another.  Calls are made while the pool has page ids left for the pages
\* a call allocates, and until a call leaves the code's normal path.
\* ============================================================================

TreeInsert(key, value) ==
  LET call == BPlusTreeInsert(tree, key, value) IN
  /\ tree.fault = "none"
  /\ call.tree.next_page_id <= MaxTreePages
  /\ tree' = call.tree
  /\ tree_pairs' = IF call.result THEN PutEntry(tree_pairs, key, value)
                                  ELSE tree_pairs
  /\ UNCHANGED <<bpmVars, replacer, last, violations, access_order,
                 tableVars, scanVars, crabVars>>

TreeRemove(key) ==
  /\ tree.fault = "none"
  /\ tree' = BPlusTreeRemove(tree, key)
  /\ tree_pairs' = DropEntry(tree_pairs, key)
  /\ UNCHANGED <<bpmVars, replacer, last, violations, access_order,
                 tableVars, scanVars, crabVars>>

InitTree ==
  \E leaf_max_size \in 2 .. MaxLeafSize,
     internal_max_size \in 3 .. MaxInternalSize :
    /\ InitPool(MaxK, TripOff, NoCall)
    /\ table = NewTable(BucketSize)
    /\ shadow = NoPairs
    /\ tree = BPlusTree(leaf_max_size, internal_max_size)
    /\ tree_pairs = NoPairs

NextTree ==
  \/ \E key \in TreeKeys, value \in TreeRids : TreeInsert(key, value)
  \/ \E key \in TreeKeys : TreeRemove(key)

SpecTree == InitTree /\ [][NextTree]_vars

\* ============================================================================
\* The sequential scan and the lock manager
\* ============================================================================
\* scan is the executor with what it works on:
\*   state                "none", "constructed", "ready" after an Init that
\*                        returned, "thrown" after a call that an exception
\*                        ended;
\*   isolation            the transaction's isolation level;
\*   rows                 the table holds the rows 1 .. rows, in the order
\*                        of its iterator;
\*   table_iter           the rows table_iter_ has passed, End() being rows;
\*   table_lock_set       the lock modes the transaction holds on the table;
\*   shared_row_lock_set  GetSharedRowLockSet(): empty, or the one entry of
\*                        the table, the set of its rows locked shared;
\*   lock_requests        the calls of LockTable and LockRow made so far;
\*   out                  the last call: which, what the lock manager
\*                        answered to its lock request, whether it found
\*                        the iterator at End(), what it gave its caller.
\* The lock manager and the transaction are not part of the sources: a lock
\* request is granted (true), refused (false) or ends in a
\* TransactionAbortException as the lock manager decides; a granted row
\* lock is put into the transaction's shared row lock set, whose entry for
\* a table exists from the first row lock on; UnlockRow takes the row out
\* of the set; UnlockTable of a table that is not locked returns false or
\* ends in a TransactionAbortException.
IsolationLevels == {"READ_UNCOMMITTED", "READ_COMMITTED", "REPEATABLE_READ"}

LockAnswers == {"granted", "refused", "abort"}

TakesLocksIfRepeatable(isolation) == isolation = "REPEATABLE_READ"

\* Lines 24 and 54: every level but READ_UNCOMMITTED takes locks.
TakesLocks(isolation) == isolation # "READ_UNCOMMITTED"

\* Line 41: READ_COMMITTED gives its locks back at the end of the scan.
ReleasesAtEnd(isolation) == isolation = "READ_COMMITTED"

Out(call, lock, at_end, result, row) ==
  [call |-> call, lock |-> lock, at_end |-> at_end, result |-> result,
   row |-> row]

\* SeqScanExecutor::SeqScanExecutor, for a transaction that holds no lock.
ScanConstruct(isolation, rows) ==
  /\ scan.state = "none"
  /\ scan' = [NoScan EXCEPT !.state = "constructed",
                            !.isolation = isolation, !.rows = rows]
  /\ UNCHANGED <<bpmVars, replacer, last, violations, access_order,
                 tableVars, treeVars, crabVars>>

\* SeqScanExecutor::Init.
ScanInit(answer) ==
  /\ scan.state = "constructed"
  /\ scan' =
       IF ~TakesLocks(scan.isolation)
         THEN [scan EXCEPT !.state = "ready", !.table_iter = 0,
                           !.out = Out("Init", "none", FALSE, "returned",
                                       NoRow)]
       ELSE IF answer = "granted"
         THEN [scan EXCEPT !.state = "ready", !.table_iter = 0,
                           !.table_lock_set = @ \cup {"INTENTION_SHARED"},
                           !.lock_requests = @ + 1,
                           !.out = Out("Init", answer, FALSE, "returned",
                                       NoRow)]
         ELSE [scan EXCEPT !.state = "thrown", !.lock_requests = @ + 1,
                           !.out = Out("Init", answer, FALSE,
                                       "ExecutionException", NoRow)]
  /\ UNCHANGED <<bpmVars, replacer, last, violations, access_order,
                 tableVars, treeVars, crabVars>>

\* Next, lines 39-50: table_iter_ is at End().
ScanEnd(unlock_answer) ==
  IF ~ReleasesAtEnd(scan.isolation)
    THEN [scan EXCEPT !.out = Out("Next", "none", TRUE, "false", NoRow)]
  ELSE IF scan.shared_row_lock_set = <<>>
    \* unordered_map::at of a key that is not in the map
    THEN [scan EXCEPT !.state = "thrown",
                      !.out = Out("Next", "none", TRUE, "out_of_range",
                                  NoRow)]
  ELSE IF scan.table_lock_set # {}
    THEN [scan EXCEPT !.shared_row_lock_set = <<{}>>,
                      !.table_lock_set = {},
                      !.out = Out("Next", "none", TRUE, "false", NoRow)]
  ELSE IF unlock_answer = "abort"
    THEN [scan EXCEPT !.state = "thrown", !.shared_row_lock_set = <<{}>>,
                      !.out = Out("Next", "none", TRUE,
                                  "TransactionAbortException", NoRow)]
    ELSE [scan EXCEPT !.shared_row_lock_set = <<{}>>,
                      !.out = Out("Next", "none", TRUE, "false", NoRow)]

\* Next, lines 51-65: the row is read, the iterator moves on, the row is
\* locked.
ScanRow(answer) ==
  LET row == scan.table_iter + 1
      moved == [scan EXCEPT !.table_iter = row]
      locked == IF scan.shared_row_lock_set = <<>> THEN {row}
                ELSE scan.shared_row_lock_set[1] \cup {row}
  IN  IF ~TakesLocks(scan.isolation)
        THEN [moved EXCEPT !.out = Out("Next", "none", FALSE, "true", row)]
      ELSE IF answer = "granted"
        THEN [moved EXCEPT !.shared_row_lock_set = <<locked>>,
                           !.lock_requests = @ + 1,
                           !.out = Out("Next", answer, FALSE, "true", row)]
        ELSE [moved EXCEPT !.state = "thrown", !.lock_requests = @ + 1,
                           !.out = Out("Next", answer, FALSE,
                                       "ExecutionException", NoRow)]

\* SeqScanExecutor::Next.
ScanNext(answer, unlock_answer) ==
  /\ scan.state = "ready"
  /\ scan' = IF scan.table_iter = scan.rows THEN ScanEnd(unlock_answer)
                                            ELSE ScanRow(answer)
  /\ UNCHANGED <<bpmVars, replacer, last, violations, access_order,
                 tableVars, treeVars, crabVars>>

InitScan == InitWith(MaxK, TripOff, NoCall)

NextScan ==
  \/ \E isolation \in IsolationLevels, rows \in 0 .. MaxRows :
       ScanConstruct(isolation, rows)
  \/ \E answer \in LockAnswers : ScanInit(answer)
  \/ \E answer \in LockAnswers, unlock_answer \in {"refused", "abort"} :
       ScanNext(answer, unlock_answer)

SpecScan == InitScan /\ [][NextScan]_vars

\* ============================================================================
\* The B+ tree under its latches: Threads call Insert, Remove and GetValue
\* on one tree, each thread with a transaction of its own.  A step of a
\* thread is one latch acquisition together with the reads, writes and
\* releases that follow it up to the next acquisition; the peers that
\* DeleteEntry latches are taken together with the work on the leaf.  A
\* thread whose call ended in an exception, or fetched a page id that no
\* page of the tree has, makes no further call.  Calls are made while the
\* pool has page ids left and no call has left the code's normal path
\* inside Insert or DeleteEntry.
\* ============================================================================

CallKeys == (1 .. MaxCallKey) \cup {MaxCrabKey}

Operations == {"SEARCH", "INSERT", "DELETE"}

RECURSIVE CallsOf(_)
CallsOf(thread) ==
  IF thread = 0 THEN 0 ELSE txn[thread].calls + CallsOf(thread - 1)

\* The latches and pins as they are, and as a step leaves them.
Held == Latches(root_page_id_latch, rwlatch, pin_count)

Leave(l) ==
  /\ root_page_id_latch' = l.root_page_id_latch
  /\ rwlatch' = l.rwlatch
  /\ pin_count' = l.pin_count

\* The call is over: the locals of GetLeafPage are gone, the page set of
\* the transaction stays as the call left it.
Returned(me, page_set, result, expected) ==
  [me EXCEPT !.pc = "idle", !.next_page_id = INVALID_PAGE_ID,
             !.pre_page = NullPage, !.page = NullPage,
             !.page_set = page_set, !.result = result,
             !.expected = expected]

\* The call is over by an exception, or it went on from a page that is
\* none of the tree.
Left(me, pc, result) == [me EXCEPT !.pc = pc, !.result = result]

YesNo(b) == IF b THEN "true" ELSE "false"

\* Insert line 174, Remove line 346, GetValue line 35: the root id latch is
\* taken shared; Insert and Remove then ask IsEmpty(), GetValue does not.
CallBegin(thread, op, key) ==
  LET me == txn[thread]
      started == [me EXCEPT !.op = op, !.key = key, !.calls = @ + 1,
                            !.first = TRUE, !.result = "none",
                            !.expected = "none", !.unlatched = {},
                            !.next_page_id = tree.root_page_id]
  IN
  /\ tree.fault = "none"
  /\ me.pc = "idle"
  /\ CallsOf(MaxThreads) < MaxCalls
  /\ CanRLock(root_page_id_latch)
  /\ IF op # "SEARCH" /\ IsEmpty(tree)
       THEN /\ UNCHANGED root_page_id_latch
            /\ txn' = [txn EXCEPT ![thread] =
                 IF op = "INSERT"
                   THEN [started EXCEPT !.pc = "WLockEmpty"]
                   ELSE Returned(started, me.page_set, "void", "void")]
       ELSE /\ root_page_id_latch' = RLock(root_page_id_latch, thread)
            /\ txn' = [txn EXCEPT ![thread] =
                         [started EXCEPT !.pc = "Descend"]]
  /\ UNCHANGED <<bpmVars, replacer, last, violations, access_order,
                 tableVars, treeVars, scanVars, rwlatch, pin_count>>

\* Insert lines 180-195 without the second IsEmpty(): the tree is started
\* whatever the root is by now.
WLockEmptyUnchecked(thread) ==
  LET me == txn[thread] IN
  /\ tree.fault = "none"
  /\ me.pc = "WLockEmpty"
  /\ CanWLock(root_page_id_latch)
  /\ tree.next_page_id < MaxCrabPages
  /\ tree' = StartNewTree(tree, me.key, me.key)
  /\ tree_pairs' = PutEntry(tree_pairs, me.key, me.key)
  /\ txn' = [txn EXCEPT ![thread] = Returned(me, me.page_set, "true", "true")]
  /\ UNCHANGED <<bpmVars, replacer, last, violations, access_order,
                 tableVars, scanVars, root_page_id_latch, rwlatch,
                 pin_count>>

\* Insert lines 180-197: the root id latch is taken exclusive and IsEmpty()
\* is asked again; the tree is started, or the latch is given back.
WLockEmpty(thread) ==
  LET me == txn[thread] IN
  /\ tree.fault = "none"
  /\ me.pc = "WLockEmpty"
  /\ CanWLock(root_page_id_latch)
  /\ IF IsEmpty(tree)
       THEN /\ tree.next_page_id < MaxCrabPages
            /\ tree' = StartNewTree(tree, me.key, me.key)
            /\ tree_pairs' = PutEntry(tree_pairs, me.key, me.key)
            /\ txn' = [txn EXCEPT ![thread] =
                         Returned(me, me.page_set, "true", "true")]
       ELSE /\ txn' = [txn EXCEPT ![thread].pc = "RLockAgain"]
            /\ UNCHANGED treeVars
  /\ UNCHANGED <<bpmVars, replacer, last, violations, access_order,
                 tableVars, scanVars, root_page_id_latch, rwlatch,
                 pin_count>>

\* Insert lines 197-200: the root id latch is taken shared again and
\* GetLeafPage is entered; IsEmpty() is not asked a third time.
RLockAgain(thread) ==
  LET me == txn[thread] IN
  /\ tree.fault = "none"
  /\ me.pc = "RLockAgain"
  /\ CanRLock(root_page_id_latch)
  /\ root_page_id_latch' = RLock(root_page_id_latch, thread)
  /\ txn' = [txn EXCEPT ![thread] =
               [me EXCEPT !.pc = "Descend",
                          !.next_page_id = tree.root_page_id]]
  /\ UNCHANGED <<bpmVars, replacer, last, violations, access_order,
                 tableVars, treeVars, scanVars, rwlatch, pin_count>>

\* GetLeafPage with first = true, one turn of its loop (lines 68-82,
\* 93-118): the page is fetched and latched, exclusive when it is a leaf
\* and the operation is not SEARCH, the latch before it is given back; at
\* a leaf that is not safe everything is released (line 95).
Descend(thread) ==
  LET me == txn[thread]
      page_id == me.next_page_id
  IN
  /\ tree.fault = "none"
  /\ me.pc = "Descend"
  /\ IF ~Resident(tree, page_id)
       THEN /\ txn' = [txn EXCEPT ![thread] =
                         Left(me, "fault", "fetch of no page of the tree")]
            /\ UNCHANGED <<root_page_id_latch, rwlatch, pin_count>>
       ELSE
         LET page == tree.pages[page_id]
             exclusive == IsLeafPage(page) /\ me.op # "SEARCH"
             latched ==
               Pin([Held EXCEPT !.rwlatch[page_id] =
                      IF exclusive THEN WLock(@, thread)
                                   ELSE RLock(@, thread)], page_id)
             released ==
               IF me.pre_page = NullPage
                 THEN [latched EXCEPT !.root_page_id_latch =
                         RUnlock(@, thread)]
                 ELSE Unpin([latched EXCEPT !.rwlatch[me.pre_page] =
                               RUnlock(@, thread)], me.pre_page)
             page_set == IF exclusive THEN Append(me.page_set, page_id)
                                      ELSE me.page_set
         IN
         /\ IF exclusive THEN CanWLock(rwlatch[page_id])
                         ELSE CanRLock(rwlatch[page_id])
         /\ IF IsLeafPage(page) /\ ~IsPageSafe(page, me.op)
              THEN /\ Leave(ReleaseWLatches(released, page_set))
                   /\ txn' = [txn EXCEPT ![thread] =
                                [me EXCEPT !.pc = "WLock",
                                           !.pre_page = NullPage,
                                           !.page_set = <<>>]]
            ELSE IF IsLeafPage(page)
              THEN /\ Leave(released)
                   /\ txn' = [txn EXCEPT ![thread] =
                                [me EXCEPT !.pc = "AtLeaf",
                                           !.pre_page = NullPage,
                                           !.page = page_id,
                                           !.page_set = page_set]]
            ELSE /\ Leave(released)
                 /\ txn' = [txn EXCEPT ![thread] =
                              [me EXCEPT !.pre_page = page_id,
                                 !.next_page_id =
                                   NextPageId(page, me.key)]]
  /\ UNCHANGED <<bpmVars, replacer, last, violations, access_order,
                 tableVars, treeVars, scanVars>>

\* GetLeafPage lines 96-99 and 65: the root id latch is taken exclusive,
\* nullptr goes into the page set, and the descent starts again from what
\* root_page_id_ is now.
WLockRoot(thread) ==
  LET me == txn[thread] IN
  /\ tree.fault = "none"
  /\ me.pc = "WLock"
  /\ CanWLock(root_page_id_latch)
  /\ root_page_id_latch' = WLock(root_page_id_latch, thread)
  /\ txn' = [txn EXCEPT ![thread] =
               [me EXCEPT !.pc = "DescendW", !.first = FALSE,
                          !.page_set = <<NullPage>>,
                          !.next_page_id = tree.root_page_id]]
  /\ UNCHANGED <<bpmVars, replacer, last, violations, access_order,
                 tableVars, treeVars, scanVars, rwlatch, pin_count>>

\* GetLeafPage with first = false, one turn of its loop (lines 68-69,
\* 87-91, 93-118): the page is latched exclusive; when it is safe the page
\* set is released; then the page goes into the page set.
DescendW(thread) ==
  LET me == txn[thread]
      page_id == me.next_page_id
  IN
  /\ tree.fault = "none"
  /\ me.pc = "DescendW"
  /\ IF ~Resident(tree, page_id)
       THEN /\ txn' = [txn EXCEPT ![thread] =
                         Left(me, "fault", "fetch of no page of the tree")]
            /\ UNCHANGED <<root_page_id_latch, rwlatch, pin_count>>
       ELSE
         LET page == tree.pages[page_id]
             latched == Pin([Held EXCEPT !.rwlatch[page_id] =
                               WLock(@, thread)], page_id)
             safe == IsPageSafe(page, me.op)
         IN
         /\ CanWLock(rwlatch[page_id])
         /\ Leave(IF safe THEN ReleaseWLatches(latched, me.page_set)
                          ELSE latched)
         /\ txn' = [txn EXCEPT ![thread] =
              [me EXCEPT
                 !.page_set = IF safe THEN <<page_id>>
                                      ELSE Append(@, page_id),
                 !.pc = IF IsLeafPage(page) THEN "AtLeaf" ELSE @,
                 !.page = IF IsLeafPage(page) THEN page_id ELSE @,
                 !.next_page_id = IF IsLeafPage(page) THEN @
                                  ELSE NextPageId(page, me.key)]]
  /\ UNCHANGED <<bpmVars, replacer, last, violations, access_order,
                 tableVars, treeVars, scanVars>>

\* The page that GetLeafPage is about to latch is write-latched by the
\* calling thread itself.  Locking a std::shared_mutex that the thread owns
\* is undefined: the thread waits for itself, which is no step at all, or
\* lock() throws std::system_error (resource_deadlock_would_occur), which
\* ends the call at line 72, 75 or 87 with nothing released.
Relock(thread) ==
  LET me == txn[thread] IN
  /\ tree.fault = "none"
  /\ me.pc \in {"Descend", "DescendW"}
  /\ Resident(tree, me.next_page_id)
  /\ rwlatch[me.next_page_id].writer = thread
  /\ txn' = [txn EXCEPT ![thread] =
               Left(me, "threw", "system_error: resource deadlock")]
  /\ UNCHANGED <<bpmVars, replacer, last, violations, access_order,
                 tableVars, treeVars, scanVars, root_page_id_latch,
                 rwlatch, pin_count>>

\* GetValue lines 39-49.
AtLeafSearch(thread) ==
  LET me == txn[thread]
      leaf_page == tree.pages[me.page]
  IN
  /\ tree.fault = "none"
  /\ me.pc = "AtLeaf"
  /\ me.op = "SEARCH"
  /\ Leave(Unpin([Held EXCEPT !.rwlatch[me.page] = RUnlock(@, thread)],
                 me.page))
  /\ txn' = [txn EXCEPT ![thread] =
               Returned(me, me.page_set,
                        YesNo(LeafHasKey(leaf_page, me.key)),
                        YesNo(me.key \in DOMAIN tree_pairs))]
  /\ UNCHANGED <<bpmVars, replacer, last, violations, access_order,
                 tableVars, treeVars, scanVars>>

\* The pages of t that are other in t1, and are not write-latched by the
\* thread nor among `latched`.
Unlatched(thread, t, t1, latched) ==
  {page_id \in (DOMAIN t.pages) \cap (DOMAIN t1.pages) :
     /\ t.pages[page_id] # t1.pages[page_id]
     /\ rwlatch[page_id].writer # thread
     /\ page_id \notin latched}

\* Insert lines 202-244 with InsertInParent: every path of them ends in
\* ReleaseWLatches.  The pages fetched or made on the way are unpinned
\* again.
AtLeafInsert(thread) ==
  LET me == txn[thread]
      call == InsertIntoLeaf(tree, me.page, me.key, me.key)
  IN
  /\ tree.fault = "none"
  /\ me.pc = "AtLeaf"
  /\ me.op = "INSERT"
  /\ call.tree.next_page_id <= MaxCrabPages
  /\ tree' = call.tree
  /\ IF call.tree.fault # "none"
       THEN /\ txn' = [txn EXCEPT ![thread] =
                         Left(me, "fault", call.tree.fault)]
            /\ UNCHANGED <<tree_pairs, root_page_id_latch, rwlatch,
                           pin_count>>
       ELSE /\ tree_pairs' = IF call.result
                               THEN PutEntry(tree_pairs, me.key, me.key)
                               ELSE tree_pairs
            /\ Leave(ReleaseWLatches(Held, me.page_set))
            /\ txn' = [txn EXCEPT ![thread] =
                 [Returned(me, <<>>, YesNo(call.result),
                           YesNo(me.key \notin DOMAIN tree_pairs))
                    EXCEPT !.unlatched =
                             Unlatched(thread, tree, call.tree, {})]]
  /\ UNCHANGED <<bpmVars, replacer, last, violations, access_order,
                 tableVars, scanVars>>

\* Insert lines 215-227 when the pool has no frame whose pin count is 0:
\* the pair is in the leaf, the leaf is full, and NewPage throws
\* std::logic_error; nothing between line 215 and the caller catches it
\* or releases a latch.
NewPageThrows(thread) ==
  LET me == txn[thread]
      leaf_page == tree.pages[me.page]
  IN
  /\ tree.fault = "none"
  /\ me.pc = "AtLeaf"
  /\ me.op = "INSERT"
  /\ ~LeafHasKey(leaf_page, me.key)
  /\ GetSize(leaf_page) + 1 >= leaf_page.max_size
  /\ tree' = SetPage(tree, LeafInsert(leaf_page, me.key, me.key))
  /\ txn' = [txn EXCEPT ![thread] =
               Left(me, "threw", "logic_error: no available page!")]
  /\ UNCHANGED <<bpmVars, replacer, last, violations, access_order,
                 tableVars, scanVars, tree_pairs, root_page_id_latch,
                 rwlatch, pin_count>>

\* GetPeerNode line 660 and DeleteEntry line 433 fetch the parent of every
\* page that underflows; neither is followed by an UnpinPage.
RECURSIVE PinParents(_, _)
PinParents(l, levels) ==
  IF levels = <<>> THEN l
  ELSE PinParents(Pin(Pin(l, Head(levels).parent), Head(levels).parent),
                  Tail(levels))

\* Remove lines 352-358 with DeleteEntry: the peers of every page that
\* underflows are latched exclusive and given back; ReleaseWLatches is
\* passed on the paths that DeleteEntryReleases names.
AtLeafRemove(thread) ==
  LET me == txn[thread]
      levels == Underflows(tree, me.page, me.key)
      peers == UNION {levels[i].peers : i \in DOMAIN levels}
      t1 == DeleteEntry(tree, me.page, me.key)
      releases == DeleteEntryReleases(tree, me.page, me.key)
      pinned == PinParents(Held, levels)
  IN
  /\ tree.fault = "none"
  /\ me.pc = "AtLeaf"
  /\ me.op = "DELETE"
  /\ \A peer \in peers : CanWLock(rwlatch[peer])
  /\ IF t1.fault # "none"
       THEN /\ tree' = t1
            /\ txn' = [txn EXCEPT ![thread] = Left(me, "fault", t1.fault)]
            /\ UNCHANGED <<tree_pairs, root_page_id_latch, rwlatch,
                           pin_count>>
       ELSE /\ tree' = DeletePages(t1)
            /\ tree_pairs' = DropEntry(tree_pairs, me.key)
            /\ Leave(IF releases THEN ReleaseWLatches(pinned, me.page_set)
                                 ELSE pinned)
            /\ txn' = [txn EXCEPT ![thread] =
                 [Returned(me, IF releases THEN <<>> ELSE me.page_set,
                           "void", "void")
                    EXCEPT !.unlatched =
                             Unlatched(thread, tree, t1, peers)]]
  /\ UNCHANGED <<bpmVars, replacer, last, violations, access_order,
                 tableVars, scanVars>>

\* The tree that holds the keys n + 1, n, ..., 2, inserted in that order.
Prefilled(n) ==
  InsertKeys(BPlusTree(CrabLeafSize, CrabInternalSize),
             [i \in 1 .. n |-> n + 2 - i])

RECURSIVE PairsOf(_)
PairsOf(n) == IF n = 0 THEN NoPairs ELSE PutEntry(PairsOf(n - 1), n + 1, n + 1)

InitCrab ==
  \E n \in 0 .. MaxPrefill :
    /\ InitPool(MaxK, TripOff, NoCall)
    /\ table = NewTable(BucketSize)
    /\ shadow = NoPairs
    /\ tree = Prefilled(n)
    /\ tree_pairs = PairsOf(n)

NextCrab ==
  \E thread \in Threads :
    \/ \E op \in Operations, key \in CallKeys : CallBegin(thread, op, key)
    \/ WLockEmpty(thread)
    \/ RLockAgain(thread)
    \/ Descend(thread)
    \/ WLockRoot(thread)
    \/ DescendW(thread)
    \/ Relock(thread)
    \/ AtLeafSearch(thread)
    \/ AtLeafInsert(thread)
    \/ NewPageThrows(thread)
    \/ AtLeafRemove(thread)

SpecCrab == InitCrab /\ [][NextCrab]_vars

\* ============================================================================
\* SpecIter: an index iterator next to Remove calls.  A thread takes an
\* iterator from Begin(), moves it with operator++ and destroys it; the
\* other calls are Removes, latched as under SpecCrab.  idx is the
\* iterator's idx_, page its page_; between the two halves of a hand-off
\* next_page_id is the leaf that operator++ has fetched.
\* ============================================================================

\* The pages whose latch thread holds shared.
ReadLatched(thread) ==
  {page_id \in CrabPageIds : thread \in rwlatch[page_id].readers}

\* Begin(), lines 686-691: the root id latch is taken shared; on an empty
\* tree it is given back and End() is an iterator of no page.
IterBegin(thread) ==
  LET me == txn[thread]
      started == [me EXCEPT !.op = "ITERATE", !.calls = @ + 1,
                            !.result = "none", !.expected = "none",
                            !.unlatched = {}, !.idx = 0,
                            !.next_page_id = tree.root_page_id]
  IN
  /\ tree.fault = "none"
  /\ me.pc = "idle"
  /\ CallsOf(MaxThreads) < MaxCalls
  /\ CanRLock(root_page_id_latch)
  /\ IF IsEmpty(tree)
       THEN /\ txn' = [txn EXCEPT ![thread] =
                         Returned(started, me.page_set, "End()", "End()")]
            /\ UNCHANGED root_page_id_latch
       ELSE /\ root_page_id_latch' = RLock(root_page_id_latch, thread)
            /\ txn' = [txn EXCEPT ![thread] =
                         [started EXCEPT !.pc = "BeginDescend"]]
  /\ UNCHANGED <<bpmVars, replacer, last, violations, access_order,
                 tableVars, treeVars, scanVars, rwlatch, pin_count>>

\* Begin(), one turn of its loop (lines 694-712): the page is fetched and
\* read-latched, the latch before it is given back; at a leaf the iterator
\* is built on it with idx 0, else the descent goes on at ValueAt(0).
BeginDescend(thread) ==
  LET me == txn[thread]
      page_id == me.next_page_id
  IN
  /\ tree.fault = "none"
  /\ me.pc = "BeginDescend"
  /\ IF ~Resident(tree, page_id)
       THEN /\ txn' = [txn EXCEPT ![thread] =
                         Left(me, "fault", "fetch of no page of the tree")]
            /\ UNCHANGED <<root_page_id_latch, rwlatch, pin_count>>
       ELSE
         LET page == tree.pages[page_id]
             latched == Pin([Held EXCEPT !.rwlatch[page_id] =
                               RLock(@, thread)], page_id)
             released ==
               IF me.pre_page = NullPage
                 THEN [latched EXCEPT !.root_page_id_latch =
                         RUnlock(@, thread)]
                 ELSE Unpin([latched EXCEPT !.rwlatch[me.pre_page] =
                               RUnlock(@, thread)], me.pre_page)
         IN
         /\ CanRLock(rwlatch[page_id])
         /\ Leave(released)
         /\ txn' = [txn EXCEPT ![thread] =
              IF IsLeafPage(page)
                THEN [me EXCEPT !.pc = "AtEntry", !.pre_page = NullPage,
                                !.page = page_id, !.idx = 0,
                                !.next_page_id = INVALID_PAGE_ID]
                ELSE [me EXCEPT !.pre_page = page_id,
                                !.next_page_id = ValueAt(page, 0)]]
  /\ UNCHANGED <<bpmVars, replacer, last, violations, access_order,
                 tableVars, treeVars, scanVars>>

\* IsEnd()
IsEnd(leaf, idx) ==
  leaf.next_page_id = INVALID_PAGE_ID /\ idx = GetSize(leaf)

\* operator++ up to next_page->RLatch(), lines 108-111, or all of it, line
\* 117: at the last entry of a leaf that has a next leaf the next leaf is
\* fetched and the leaf of the iterator is read-unlatched and unpinned;
\* else idx_ goes up by one.  The iterator is not moved when it is at End().
Advance(thread) ==
  LET me == txn[thread]
      leaf == tree.pages[me.page]
      next_id == leaf.next_page_id
  IN
  /\ tree.fault = "none"
  /\ me.pc = "AtEntry"
  /\ Resident(tree, me.page)
  /\ ~IsEnd(leaf, me.idx)
  /\ IF me.idx >= GetSize(leaf) - 1 /\ next_id # INVALID_PAGE_ID
       THEN /\ Leave(Unpin([Pin(Held, next_id)
                              EXCEPT !.rwlatch[me.page] = RUnlock(@, thread)],
                           me.page))
            /\ txn' = [txn EXCEPT ![thread] =
                         [me EXCEPT !.pc = "HandOff",
                                    !.next_page_id = next_id]]
       ELSE /\ txn' = [txn EXCEPT ![thread].idx = @ + 1]
            /\ UNCHANGED <<root_page_id_latch, rwlatch, pin_count>>
  /\ UNCHANGED <<bpmVars, replacer, last, violations, access_order,
                 tableVars, treeVars, scanVars>>

\* operator++, lines 112-115: the fetched leaf is read-latched and becomes
\* the leaf of the iterator, idx_ is 0.  A leaf that a Remove has discarded
\* in between is no page of the tree any more.
LatchNext(thread) ==
  LET me == txn[thread]
      next_id == me.next_page_id
  IN
  /\ tree.fault = "none"
  /\ me.pc = "HandOff"
  /\ IF ~Resident(tree, next_id)
       THEN /\ txn' = [txn EXCEPT ![thread] =
                         Left(me, "fault", "latch of a discarded leaf")]
            /\ UNCHANGED rwlatch
       ELSE /\ CanRLock(rwlatch[next_id])
            /\ rwlatch' = [rwlatch EXCEPT ![next_id] = RLock(@, thread)]
            /\ txn' = [txn EXCEPT ![thread] =
                         [me EXCEPT !.pc = "AtEntry", !.page = next_id,
                                    !.idx = 0,
                                    !.next_page_id = INVALID_PAGE_ID]]
  /\ UNCHANGED <<bpmVars, replacer, last, violations, access_order,
                 tableVars, treeVars, scanVars, root_page_id_latch,
                 pin_count>>

\* ~IndexIterator: the leaf of the iterator is read-unlatched and unpinned.
IteratorDestroy(thread) ==
  LET me == txn[thread] IN
  /\ tree.fault = "none"
  /\ me.pc = "AtEntry"
  /\ Leave(Unpin([Held EXCEPT !.rwlatch[me.page] = RUnlock(@, thread)],
                 me.page))
  /\ txn' = [txn EXCEPT ![thread] =
               [Returned(me, me.page_set, "void", "void") EXCEPT !.idx = 0]]
  /\ UNCHANGED <<bpmVars, replacer, last, violations, access_order,
                 tableVars, treeVars, scanVars>>

NextIter ==
  \E thread \in Threads :
    \/ IterBegin(thread)
    \/ BeginDescend(thread)
    \/ Advance(thread)
    \/ LatchNext(thread)
    \/ IteratorDestroy(thread)
    \/ \E key \in CallKeys : CallBegin(thread, "DELETE", key)
    \/ Descend(thread)
    \/ WLockRoot(thread)
    \/ DescendW(thread)
    \/ AtLeafRemove(thread)

SpecIter == InitCrab /\ [][NextIter]_vars

\* ============================================================================
\* Properties
\* ============================================================================

ResidentPages == {pages[f].page_id : f \in FrameIds} \ {INVALID_PAGE_ID}

FramesOf(pgs, page_id) == {f \in FrameIds : pgs[f].page_id = page_id}

Evictable(r, frame_id) ==
  frame_id \in Tracked(r) /\ r.entries[frame_id].evictable

EvictableCount(r) == Cardinality({f \in Tracked(r) : r.entries[f].evictable})

\* Number of times frame_id occurs in the list s.
Occurrences(s, frame_id) ==
  Cardinality({i \in 1 .. Len(s) : s[i] = frame_id})

PageArgs == PageIds \cup {INVALID_PAGE_ID}

\* C1: every resident page id is held by exactly one frame, the page table
\* maps it to that frame, and the page table stores no page id that no frame
\* holds.
C1_PageTableBijection ==
  /\ \A p \in ResidentPages :
       /\ Cardinality(FramesOf(pages, p)) = 1
       /\ HTHas(page_table, p)
       /\ pages[HTFind(page_table, p)].page_id = p
  /\ \A p \in HTKeys(page_table) : FramesOf(pages, p) # {}

\* A state after an eviction: the pool is full, a page that was created has
\* left it, and the page table has split a bucket.
C1_Witness ==
  /\ Cardinality(ResidentPages) = PoolSize
  /\ \E p \in PageIds : p < next_page_id /\ p \notin ResidentPages
  /\ page_table.num_buckets > 1
  /\ last.op \in {"NewPage", "FetchPage"}
  /\ last.victim_pin # NoPin

\* C2: no pin count is negative, a frame with a positive pin count is tracked
\* by the replacer as not evictable, and a frame that NewPage or FetchPage
\* takes from the replacer has pin count 0 when it is taken: in the call made
\* last, and in the call that would be made now.
C2_PinnedNotEvictable ==
  /\ \A f \in FrameIds : pages[f].pin_count >= 0
  /\ \A f \in FrameIds :
       pages[f].pin_count > 0 =>
         f \in Tracked(replacer) /\ ~replacer.entries[f].evictable
  /\ last.victim_pin \in {NoPin, 0}
  /\ (free_list = <<>> /\ IsPageAvailable(pages)) =>
       \A f \in FrameChoices(Pool) : pages[f].pin_count = 0

\* The last call evicted a frame while another frame was pinned.
C2_Witness ==
  /\ last.op \in {"NewPage", "FetchPage"}
  /\ last.victim_pin = 0
  /\ Cardinality({f \in FrameIds : pages[f].pin_count > 0}) > 1

\* C3: a page created by NewPage, written, released by UnpinPage(p, true) and
\* fetched again after calls on other pages holds, when FetchPage returns,
\* the bytes it held at the unpin.
C3_DirtyRoundTrip ==
  rt.stage = "fetched" =>
    /\ HTHas(page_table, rt.page)
    /\ pages[HTFind(page_table, rt.page)].data = rt.bytes

\* The page was evicted between the unpin and the fetch, and the bytes are
\* not those of a zeroed page.
C3_Witness ==
  /\ rt.stage = "fetched"
  /\ rt.missed
  /\ rt.bytes # ZeroData
  /\ pages[HTFind(page_table, rt.page)].data = rt.bytes

\* C4: when every frame is pinned, NewPage throws and changes nothing (no
\* page id is allocated), and so does FetchPage of a page that is not
\* resident, whatever frame_id happens to hold.
C4_FullPoolRejects ==
  (\A g \in FrameIds : pages[g].pin_count > 0) =>
    /\ \A f \in FrameIds :
         /\ NewPgImp(Pool, f).ret = "throw"
         /\ NewPgImp(Pool, f).pool = Pool
    /\ \A p \in PageIds \ ResidentPages : \A f \in FrameIds :
         /\ FetchPgImp(Pool, p, f).ret = "throw"
         /\ FetchPgImp(Pool, p, f).pool = Pool

\* pool_size pages were created and all are still pinned.
C4_Witness ==
  /\ \A g \in FrameIds : pages[g].pin_count > 0
  /\ next_page_id = PoolSize
  /\ Cardinality(ResidentPages) = PoolSize
  /\ \A f \in FrameIds : NewPgImp(Pool, f).ret = "throw"

\* C5: UnpinPage returns false and changes nothing when the page is not
\* resident or its pin count is 0; otherwise it returns true, lowers the pin
\* count by one, makes the frame evictable exactly when the count reaches 0,
\* sets is_dirty when dirty is true and never clears it, and changes nothing
\* else.
C5_Unpin ==
  \A p \in PageArgs, d \in BOOLEAN :
    LET r == UnpinPgImp(Pool, p, d)
        f == HTFind(page_table, p)
    IN IF ~HTHas(page_table, p)
         THEN r.ret = "false" /\ r.pool = Pool
       ELSE IF pages[f].pin_count = 0
         THEN r.ret = "false" /\ r.pool = Pool
       ELSE /\ r.ret = "true"
            /\ r.pool.pages[f].pin_count = pages[f].pin_count - 1
            /\ Evictable(r.pool.replacer, f) <=> (r.pool.pages[f].pin_count = 0)
            /\ r.pool.pages[f].is_dirty <=> (pages[f].is_dirty \/ d)
            /\ r.pool.pages[f].page_id = p
            /\ r.pool.pages[f].data = pages[f].data
            /\ \A g \in FrameIds \ {f} : r.pool.pages[g] = pages[g]
            /\ r.pool.page_table = page_table
            /\ r.pool.free_list = free_list
            /\ r.pool.disk = disk
            /\ r.pool.next_page_id = next_page_id
            /\ Tracked(r.pool.replacer) = Tracked(replacer)
            /\ r.pool.replacer.history_list = replacer.history_list
            /\ r.pool.replacer.cache_list = replacer.cache_list

\* An unpin has just brought a dirty page to pin count 0 while another page
\* is dirty and still pinned.
C5_Witness ==
  /\ last.op = "UnpinPage"
  /\ \E f \in FrameIds :
       /\ pages[f].page_id # INVALID_PAGE_ID
       /\ pages[f].pin_count = 0
       /\ pages[f].is_dirty
       /\ Evictable(replacer, f)
  /\ \E f \in FrameIds : pages[f].pin_count > 0 /\ pages[f].is_dirty

\* C6: DeletePage returns true and changes nothing when the page is not
\* resident, returns false and changes nothing when it is pinned; otherwise
\* it returns true, the page has no page-table entry, and its frame is
\* untracked by the replacer, once in the free list, and holds
\* INVALID_PAGE_ID with pin count 0 and is_dirty false.
C6_Delete ==
  \A p \in PageArgs :
    LET r == DeletePgImp(Pool, p)
        f == HTFind(page_table, p)
    IN IF ~HTHas(page_table, p)
         THEN r.ret = "true" /\ r.pool = Pool
       ELSE IF pages[f].pin_count > 0
         THEN r.ret = "false" /\ r.pool = Pool
       ELSE /\ r.ret = "true"
            /\ ~HTHas(r.pool.page_table, p)
            /\ p \notin HTKeys(r.pool.page_table)
            /\ f \notin Tracked(r.pool.replacer)
            /\ Occurrences(r.pool.replacer.history_list, f) = 0
            /\ Occurrences(r.pool.replacer.cache_list, f) = 0
            /\ Occurrences(r.pool.free_list, f) = 1
            /\ r.pool.pages[f].page_id = INVALID_PAGE_ID
            /\ r.pool.pages[f].pin_count = 0
            /\ ~r.pool.pages[f].is_dirty

\* A delete has just returned a frame to the free list, and a dirty unpinned
\* page and a pinned page are resident for the next delete.
C6_Witness ==
  /\ last.op = "DeletePage"
  /\ free_list # <<>>
  /\ pages[free_list[Len(free_list)]].page_id = INVALID_PAGE_ID
  /\ \E p \in ResidentPages :
       /\ pages[HTFind(page_table, p)].pin_count = 0
       /\ pages[HTFind(page_table, p)].is_dirty
       /\ DeletePgImp(Pool, p).ret = "true"
       /\ DeletePgImp(Pool, p).pool # Pool

\* C7: FlushPage of a resident page returns true and writes the frame's
\* bytes to disk, dirty or not, and changes nothing else (is_dirty stays as
\* it is); FlushPage of a page that is not resident or of INVALID_PAGE_ID
\* returns false and writes nothing.
C7_Flush ==
  \A p \in PageArgs :
    LET r == FlushPgImp(Pool, p)
        f == HTFind(page_table, p)
    IN IF p # INVALID_PAGE_ID /\ HTHas(page_table, p)
         THEN /\ r.ret = "true"
              /\ r.pool.disk[p] = pages[f].data
              /\ \A q \in PageIds \ {p} : r.pool.disk[q] = disk[q]
              /\ r.pool.pages = pages
              /\ r.pool.page_table = page_table
              /\ r.pool.replacer = replacer
              /\ r.pool.free_list = free_list
              /\ r.pool.next_page_id = next_page_id
         ELSE r.ret = "false" /\ r.pool = Pool

\* A clean page whose bytes differ from the disk's and a dirty page are
\* resident, and flushing the clean one changes the disk.
C7_Witness ==
  /\ \E p \in ResidentPages :
       /\ ~pages[HTFind(page_table, p)].is_dirty
       /\ pages[HTFind(page_table, p)].data # disk[p]
       /\ FlushPgImp(Pool, p).pool.disk # disk
  /\ \E p \in ResidentPages :
       /\ pages[HTFind(page_table, p)].is_dirty
       /\ FlushPgImp(Pool, p).ret = "true"

\* C8: FlushAllPages never waits for the pool mutex that it holds itself (and
\* so goes on to flush every resident page and to return).
C8_FlushAllNeverBlocks == flushall_pc # "blocked"

\* C9: Size() is the number of tracked frames whose evictable flag is true.
C9_SizeCountsEvictable == Size(replacer) = EvictableCount(replacer)

\* C10: every tracked frame is in exactly one of the two lists, in the
\* history list exactly when its access count is below K and in the cache
\* list exactly when it is K or more.
C10_ListByCount ==
  \A f \in Tracked(replacer) :
    /\ Occurrences(replacer.history_list, f)
         + Occurrences(replacer.cache_list, f) = 1
    /\ Occurrences(replacer.history_list, f) = 1
         <=> replacer.entries[f].in_count < replacer.k
    /\ Occurrences(replacer.cache_list, f) = 1
         <=> replacer.entries[f].in_count >= replacer.k

\* The member of S that comes first in the sequence s.
EarliestIn(s, S) ==
  s[MinOf({i \in 1 .. Len(s) : s[i] \in S})]

EvictableFrames(r) == {f \in Tracked(r) : r.entries[f].evictable}

\* C11: in every state reached without undefined behaviour, Evict returns
\* false and changes nothing when no tracked frame is evictable; otherwise
\* it returns true with the evictable frame of the history list whose first
\* access is oldest or, when the history list holds no evictable frame, the
\* evictable frame of the cache list whose latest access is oldest, and
\* untracks that frame and no other.  An access that leaves a history
\* frame's count below K changes neither list, nor the frame Evict returns.
C11_EvictOrder ==
  ~replacer.ub =>
    LET r    == replacer
        e    == Evict(r)
        ev   == EvictableFrames(r)
        hist == ev \cap Range(r.history_list)
        cach == ev \cap Range(r.cache_list)
    IN /\ ev = {} => ~e.ok /\ e.r = r
       /\ ev # {} =>
            /\ e.ok
            /\ e.frame_id =
                 IF hist # {} THEN EarliestIn(access_order.first, hist)
                              ELSE EarliestIn(access_order.latest, cach)
            /\ Tracked(e.r) = Tracked(r) \ {e.frame_id}
            /\ \A g \in Tracked(e.r) : e.r.entries[g] = r.entries[g]
            /\ e.r.history_list = EraseValue(r.history_list, e.frame_id)
            /\ e.r.cache_list = EraseValue(r.cache_list, e.frame_id)
       /\ \A f \in Range(r.history_list) :
            r.entries[f].in_count + 1 < r.k =>
              /\ RecordAccess(r, f).history_list = r.history_list
              /\ RecordAccess(r, f).cache_list = r.cache_list
              /\ Evict(RecordAccess(r, f)).ok = e.ok
              /\ Evict(RecordAccess(r, f)).frame_id = e.frame_id

\* An Evict has just been made; the one frame of the history list has been
\* accessed twice, its count is still below K and it is not evictable, so
\* that the next Evict passes over it and takes the evictable frame at the
\* back of the cache list.
C11_Witness ==
  /\ last.op = "Evict"
  /\ ~replacer.ub
  /\ Len(replacer.history_list) = 1
  /\ ~replacer.entries[replacer.history_list[1]].evictable
  /\ replacer.entries[replacer.history_list[1]].in_count = 2
  /\ replacer.cache_list # <<>>
  /\ Evict(replacer).ok
  /\ Evict(replacer).frame_id = replacer.cache_list[Len(replacer.cache_list)]

\* Number of pairs with the given key over all buckets of the table.
StoredCount(t, key) ==
  Cardinality({<<b, i>> \in (DOMAIN t.buckets) \X (1 .. t.bucket_size) :
                 i <= Len(t.buckets[b].list)
                   /\ t.buckets[b].list[i][1] = key})

\* C12: after any sequence of Insert and Remove calls, made by any number of
\* threads, Find(k) returns true exactly when k was inserted and not removed
\* since, and then gives the value inserted last for k; the table stores no
\* other key and stores each key once.
C12_RefinesMap ==
  /\ \A key \in TableKeys :
       /\ HTHas(table, key) <=> key \in DOMAIN shadow
       /\ key \in DOMAIN shadow => HTFind(table, key) = shadow[key]
       /\ StoredCount(table, key) = IF key \in DOMAIN shadow THEN 1 ELSE 0
  /\ HTKeys(table) = DOMAIN shadow

\* A Remove has just taken a key out of a table whose directory has doubled
\* twice; two keys are left, one of them with the second value.
C12_Witness ==
  /\ last.op = "Remove"
  /\ table.global_depth >= 2
  /\ Cardinality(DOMAIN shadow) >= 2
  /\ \E key \in DOMAIN shadow : shadow[key] = MaxValue
  /\ \E key \in DOMAIN shadow : shadow[key] = 0
  /\ \A key \in DOMAIN shadow : HTFind(table, key) = shadow[key]

\* C13: the directory has 2^global_depth slots; every bucket has local depth
\* at most global_depth and at most bucket_size entries; two slots hold the
\* same bucket exactly when they agree on their low local_depth bits; and
\* the hash of every key in the bucket of slot i agrees with i on the low
\* local_depth bits.
C13_DirectoryShape ==
  /\ DOMAIN table.dir = 0 .. (Pow2(table.global_depth) - 1)
  /\ \A b \in DOMAIN table.buckets :
       /\ table.buckets[b].depth <= table.global_depth
       /\ Len(table.buckets[b].list) <= table.bucket_size
       /\ table.buckets[b].size = table.bucket_size
  /\ \A i \in DOMAIN table.dir : table.dir[i] \in DOMAIN table.buckets
  /\ \A i, j \in DOMAIN table.dir :
       (table.dir[i] = table.dir[j]) <=>
          (/\ LocalDepth(table, i) = LocalDepth(table, j)
           /\ i % Pow2(LocalDepth(table, i)) = j % Pow2(LocalDepth(table, i)))
  /\ \A i \in DOMAIN table.dir :
       \A n \in 1 .. Len(table.buckets[table.dir[i]].list) :
         HashOf(table.buckets[table.dir[i]].list[n][1])
              % Pow2(LocalDepth(table, i))
           = i % Pow2(LocalDepth(table, i))

\* An Insert has just split buckets: the directory has four slots or more,
\* two slots share a bucket whose local depth is below global_depth, and a
\* bucket is full.
C13_Witness ==
  /\ last.op = "Insert"
  /\ table.global_depth >= 2
  /\ \E i, j \in DOMAIN table.dir :
       /\ i # j
       /\ table.dir[i] = table.dir[j]
       /\ LocalDepth(table, i) < table.global_depth
  /\ \E b \in DOMAIN table.buckets :
       /\ Len(table.buckets[b].list) = table.bucket_size
       /\ table.buckets[b].depth = table.global_depth

\* The slots of the directory that hold the bucket of slot index.
SlotsOf(t, index) == {i \in DOMAIN t.dir : t.dir[i] = t.dir[index]}

SampleTable == InsertAll(NewTable(2), <<1, 2, 3, 4, 5, 6, 7, 8, 9>>)

\* C14: the split of a full bucket at local depth d doubles the directory
\* exactly when d equals global_depth and replaces the bucket, in the slots
\* that held it, by two buckets of depth d + 1, leaving the other slots as
\* they were.  With bucket_size 2, after Insert of 1 .. 9 in that order the
\* local depths of slots 0, 1, 2, 3 are 2, 3, 2, 2, Find succeeds for 9, 8
\* and 2 and fails for 10, Remove returns true for 8, 4, 1 and false for 20;
\* and Insert of 0, 1, 2 by three threads ends with global_depth 1 whatever
\* the order in which the calls take effect.
C14_Split ==
  /\ \A index \in DOMAIN table.dir :
       BucketIsFull(table.buckets[table.dir[index]]) =>
         LET d     == LocalDepth(table, index)
             t2    == SplitBucket(table, index)
             old   == SlotsOf(table, index)
             width == Pow2(table.global_depth)
         IN /\ t2.global_depth = IF d = table.global_depth
                                   THEN table.global_depth + 1
                                   ELSE table.global_depth
            /\ DOMAIN t2.dir = 0 .. (Pow2(t2.global_depth) - 1)
            /\ \A i \in DOMAIN t2.dir :
                 IF (i % width) \in old
                   THEN /\ LocalDepth(t2, i) = d + 1
                        /\ t2.buckets[t2.dir[i]].size = table.bucket_size
                        /\ \A j \in DOMAIN t2.dir :
                             (j % width) \in old =>
                               ((t2.dir[i] = t2.dir[j]) <=>
                                  (i % Pow2(d + 1) = j % Pow2(d + 1)))
                   ELSE t2.buckets[t2.dir[i]]
                          = table.buckets[table.dir[i % width]]
            /\ Cardinality({t2.dir[i] : i \in {j \in DOMAIN t2.dir :
                                                 (j % width) \in old}}) = 2
  /\ SampleTable.global_depth = 3
  /\ LocalDepth(SampleTable, 0) = 2
  /\ LocalDepth(SampleTable, 1) = 3
  /\ LocalDepth(SampleTable, 2) = 2
  /\ LocalDepth(SampleTable, 3) = 2
  /\ HTHas(SampleTable, 9) /\ HTFind(SampleTable, 9) = 9
  /\ HTHas(SampleTable, 8) /\ HTFind(SampleTable, 8) = 8
  /\ HTHas(SampleTable, 2) /\ HTFind(SampleTable, 2) = 2
  /\ ~HTHas(SampleTable, 10)
  /\ HTHas(SampleTable, 8)
  /\ HTHas(RemoveAll(SampleTable, <<8>>), 4)
  /\ HTHas(RemoveAll(SampleTable, <<8, 4>>), 1)
  /\ ~HTHas(RemoveAll(SampleTable, <<8, 4, 1>>), 20)
  /\ \A order \in Interleavings(3) :
       InsertAll(NewTable(2), order).global_depth = 1

\* An Insert has just brought the table to four buckets in a directory of
\* four slots: two splits doubled the directory and one did not.
C14_Witness ==
  /\ last.op = "Insert"
  /\ table.global_depth = 2
  /\ table.num_buckets = 4
  /\ Cardinality(DOMAIN shadow) >= 4

\* The distinct buckets the directory references.
DistinctBuckets(t) == {t.dir[i] : i \in DOMAIN t.dir}

MultipleSplitTable == InsertAll(NewTable(2), <<15, 14, 23, 11, 9>>)

NumBucketsTable == InsertAll(NewTable(2), <<4, 12, 16>>)

\* C15: GetNumBuckets is the number of distinct buckets the directory
\* references; it is 1 after construction and a split adds exactly one to
\* it and to the number of distinct buckets, whether or not the directory
\* doubles and also when one of the two new buckets stays empty.  With
\* bucket_size 2, Insert of 15, 14, 23, 11, 9 gives 4 buckets and local
\* depths 1, 2, 3, 3 at slots 0, 1, 3, 7, and Insert of 4, 12, 16 gives 4
\* buckets.
C15_NumBuckets ==
  /\ table.num_buckets = Cardinality(DistinctBuckets(table))
  /\ DistinctBuckets(table) = DOMAIN table.buckets
  /\ \A bucket_size \in 1 .. MaxBucket :
       NewTable(bucket_size).num_buckets = 1
  /\ \A index \in DOMAIN table.dir :
       BucketIsFull(table.buckets[table.dir[index]]) =>
         LET t2 == SplitBucket(table, index)
         IN /\ t2.num_buckets = table.num_buckets + 1
            /\ Cardinality(DistinctBuckets(t2))
                 = Cardinality(DistinctBuckets(table)) + 1
  /\ MultipleSplitTable.num_buckets = 4
  /\ Cardinality(DistinctBuckets(MultipleSplitTable)) = 4
  /\ LocalDepth(MultipleSplitTable, 0) = 1
  /\ LocalDepth(MultipleSplitTable, 1) = 2
  /\ LocalDepth(MultipleSplitTable, 3) = 3
  /\ LocalDepth(MultipleSplitTable, 7) = 3
  /\ NumBucketsTable.num_buckets = 4
  /\ Cardinality(DistinctBuckets(NumBucketsTable)) = 4

\* An Insert into a table from which nothing is missing has just split a
\* bucket twice, the first split leaving one new bucket empty: three
\* buckets, one of them empty, and a full one.
C15_Witness ==
  /\ last.op = "Insert"
  /\ table.bucket_size = 2
  /\ table.num_buckets = 3
  /\ Cardinality(DOMAIN shadow) = 3
  /\ \E b \in DOMAIN table.buckets : table.buckets[b].list = <<>>
  /\ \E b \in DOMAIN table.buckets : BucketIsFull(table.buckets[b])

\* ============================================================================
\* The B+ tree
\* ============================================================================

NoFault == tree.fault = "none"

\* What GetValue has to give for key when the tree holds the pairs `pairs`.
Stored(pairs, key) ==
  IF key \in DOMAIN pairs THEN <<pairs[key]>> ELSE <<>>

\* C16: in every tree that Insert and Remove calls have built, Insert(k, v)
\* of a key k that is not in the tree returns true, after it GetValue(k)
\* gives exactly v and every other key gives what it gave before; Insert of
\* a key that is in the tree returns false and leaves root_page_id and every
\* page as they were.
C16_Insert ==
  NoFault =>
    \A key \in TreeKeys, value \in TreeRids :
      LET call == BPlusTreeInsert(tree, key, value) IN
      IF key \in DOMAIN tree_pairs
        THEN ~call.result /\ call.tree = tree
        ELSE /\ call.result
             /\ GetValue(call.tree, key) = <<value>>
             /\ \A other \in TreeKeys \ {key} :
                  GetValue(call.tree, other) = Stored(tree_pairs, other)

\* C17: Remove(k) of a key that is in the tree returns, and after it
\* GetValue(k) finds nothing while every other key gives its value; Remove
\* of a key that is not in the tree (a key removed before, any key when
\* the tree is empty) leaves the tree as it was, its pairs included.
C17_Remove ==
  NoFault =>
    \A key \in TreeKeys :
      LET after == BPlusTreeRemove(tree, key) IN
      IF key \in DOMAIN tree_pairs
        THEN /\ after.fault = "none"
             /\ GetValue(after, key) = <<>>
             /\ \A other \in TreeKeys \ {key} :
                  GetValue(after, other) = Stored(tree_pairs, other)
        ELSE after = tree

\* The leaves from the leftmost one on, along next_page_id; `left` bounds
\* the walk by the number of pages.
RECURSIVE LeftmostFrom(_, _)
LeftmostFrom(t, page_id) ==
  IF IsLeafPage(t.pages[page_id]) THEN page_id
  ELSE LeftmostFrom(t, ValueAt(t.pages[page_id], 0))

RECURSIVE ChainFrom(_, _, _)
ChainFrom(t, page_id, left) ==
  IF page_id = INVALID_PAGE_ID \/ left = 0 \/ ~Resident(t, page_id) THEN <<>>
  ELSE <<page_id>> \o ChainFrom(t, t.pages[page_id].next_page_id, left - 1)

LeafChain(t) ==
  IF IsEmpty(t) THEN <<>>
  ELSE ChainFrom(t, LeftmostFrom(t, t.root_page_id),
                 Cardinality(DOMAIN t.pages) + 1)

\* The leaves of the subtree of page_id, children taken from slot 0 on.
RECURSIVE LeavesUnder(_, _)
RECURSIVE LeavesOfSlots(_, _)
LeavesOfSlots(t, slots) ==
  IF slots = <<>> THEN <<>>
  ELSE LeavesUnder(t, Head(slots).value) \o LeavesOfSlots(t, Tail(slots))

LeavesUnder(t, page_id) ==
  IF ~Resident(t, page_id) THEN <<>>
  ELSE IF IsLeafPage(t.pages[page_id]) THEN <<page_id>>
  ELSE LeavesOfSlots(t, t.pages[page_id].array)

InOrderWalk(t) ==
  IF IsEmpty(t) THEN <<>> ELSE LeavesUnder(t, t.root_page_id)

RECURSIVE KeysOfLeaves(_, _)
KeysOfLeaves(t, leaves) ==
  IF leaves = <<>> THEN <<>>
  ELSE [i \in 1 .. GetSize(t.pages[Head(leaves)]) |->
          KeyAt(t.pages[Head(leaves)], i - 1)]
       \o KeysOfLeaves(t, Tail(leaves))

KeysUnder(t, page_id) ==
  LET keys == KeysOfLeaves(t, LeavesUnder(t, page_id))
  IN  {keys[i] : i \in 1 .. Len(keys)}

InternalPagesUnder(t) ==
  {p \in DOMAIN t.pages : ~IsLeafPage(t.pages[p])}

SeparatorsRight(t) ==
  \A p \in InternalPagesUnder(t) :
    \A i \in 1 .. (GetSize(t.pages[p]) - 1) :
      /\ \A k \in KeysUnder(t, ValueAt(t.pages[p], i)) :
           KeyAt(t.pages[p], i) <= k
      /\ \A k \in KeysUnder(t, ValueAt(t.pages[p], i - 1)) :
           KeyAt(t.pages[p], i) > k

\* The tree t holds the pairs `pairs` in key order, along the leaf chain
\* as along the walk from the root.
Ordered(t, pairs) ==
  LET chain == LeafChain(t)
      keys == KeysOfLeaves(t, chain)
  IN  /\ chain = InOrderWalk(t)
      /\ \A i \in 1 .. (Len(keys) - 1) : keys[i] < keys[i + 1]
      /\ {keys[i] : i \in 1 .. Len(keys)} = DOMAIN pairs
      /\ SeparatorsRight(t)

\* C18: after every Insert and every Remove, the leaves reached along
\* next_page_id from the leftmost leaf are the leaves of the walk from the
\* root, each once and in the same order; their keys, put one after the
\* other, increase strictly and are the keys inserted and not removed; and
\* every key i of an internal page is at most every key below value i and
\* above every key below value i - 1.
C18_LeafChain ==
  NoFault =>
    /\ Ordered(tree, tree_pairs)
    /\ \A key \in TreeKeys, value \in TreeRids :
         LET call == BPlusTreeInsert(tree, key, value) IN
         Ordered(call.tree, IF call.result
                              THEN PutEntry(tree_pairs, key, value)
                              ELSE tree_pairs)
    /\ \A key \in TreeKeys :
         Ordered(BPlusTreeRemove(tree, key), DropEntry(tree_pairs, key))

\* C19: between calls every page but the root holds at least GetMinSize()
\* and at most max_size entries, GetMinSize() being max_size / 2 rounded up
\* for a leaf and (max_size + 1) / 2 rounded up for an internal page, and
\* a leaf holds fewer than max_size.
SizeInRange(page) ==
  /\ IsRootPage(page) \/ GetSize(page) >= GetMinSize(page)
  /\ GetSize(page) <= page.max_size
  /\ IsLeafPage(page) => GetSize(page) < page.max_size

C19_NodeSizes ==
  NoFault => \A p \in DOMAIN tree.pages : SizeInRange(tree.pages[p])

\* C20: after every call the root is a leaf, or an internal page with at
\* least two children, and its parent_page_id is INVALID_PAGE_ID; a Remove
\* never leaves an internal root with one child; every Remove of a stored
\* key returns, the one that removes the last key leaves root_page_id
\* INVALID_PAGE_ID, and an Insert into the tree emptied that way builds a
\* tree of one leaf.
RootRight(t) ==
  IsEmpty(t) \/
    /\ Resident(t, t.root_page_id)
    /\ IsRootPage(t.pages[t.root_page_id])
    /\ IsLeafPage(t.pages[t.root_page_id])
         \/ GetSize(t.pages[t.root_page_id]) >= 2

OneLeaf(t, key, value) ==
  /\ Resident(t, t.root_page_id)
  /\ IsLeafPage(t.pages[t.root_page_id])
  /\ t.pages[t.root_page_id].array = <<[key |-> key, value |-> value]>>

C20_Root ==
  NoFault =>
    /\ RootRight(tree)
    /\ IsEmpty(tree) <=> DOMAIN tree_pairs = {}
    /\ \A key \in DOMAIN tree_pairs :
         LET after == BPlusTreeRemove(tree, key) IN
         /\ after.fault = "none"
         /\ RootRight(after)
         /\ DOMAIN tree_pairs = {key} => IsEmpty(after)
    /\ IsEmpty(tree) =>
         \A key \in TreeKeys, value \in TreeRids :
           OneLeaf(BPlusTreeInsert(tree, key, value).tree, key, value)

\* The pairs of `pairs` by ascending key.
RECURSIVE Ascending(_)
Ascending(pairs) ==
  IF DOMAIN pairs = {} THEN <<>>
  ELSE LET key == Least(DOMAIN pairs)
       IN  <<[key |-> key, value |-> pairs[key]]>>
             \o Ascending(DropEntry(pairs, key))

IterationTree == InsertKeys(BPlusTree(3, 4), <<5, 4, 3, 2, 1>>)

\* C25: on every tree that Insert and Remove calls have built, the walk
\* from Begin() by operator++ up to End() yields the pairs inserted and not
\* removed, each once, by ascending key; the walk from Begin(k) of a stored
\* key k yields k and the pairs of the larger keys; and the tree of leaf
\* size 3 and internal size 4 after Insert of 5, 4, 3, 2, 1 has an internal
\* root and yields 1, 2, 3, 4, 5.
C25_Iteration ==
    /\ IterateFrom(tree, Begin(tree), MaxTreeKey + 1) = Ascending(tree_pairs)
    /\ \A key \in DOMAIN tree_pairs :
         IterateFrom(tree, BeginAt(tree, key), MaxTreeKey + 1)
           = Ascending([k \in {o \in DOMAIN tree_pairs : o >= key}
                          |-> tree_pairs[k]])
    /\ ~IsLeafPage(IterationTree.pages[IterationTree.root_page_id])
    /\ IterateFrom(IterationTree, Begin(IterationTree), 6)
         = [i \in 1 .. 5 |-> [key |-> i, value |-> i]]

\* C26: in every tree that Insert and Remove calls have built, the empty
\* tree included, GetValue(k) of a key k that is not stored comes back
\* the normal way, returns false and has pushed nothing into the result.
C26_AbsentKey ==
  NoFault =>
    \A key \in TreeKeys \ DOMAIN tree_pairs :
      LET call == GetValueCall(tree, key)
      IN  call.fault = "none" /\ ~call.found /\ call.result = <<>>

\* ============================================================================
\* The sequential scan
\* ============================================================================

RowsLocked ==
  IF scan.shared_row_lock_set = <<>> THEN {} ELSE scan.shared_row_lock_set[1]

\* C28: under every isolation level but READ_UNCOMMITTED an Init that has
\* returned holds the intention-shared lock of the table with the iterator
\* still at the first row, and a Next that has returned a row holds the
\* table lock and the shared lock of that row; a call whose lock request
\* was refused or aborted ended in an ExecutionException and gave no row;
\* under READ_UNCOMMITTED no lock was ever requested and none is held.
C28_LockAcquisition ==
  /\ (scan.isolation # "READ_UNCOMMITTED" /\ scan.out.call = "Init"
        /\ scan.out.result = "returned")
       => /\ "INTENTION_SHARED" \in scan.table_lock_set
          /\ scan.table_iter = 0
  /\ (scan.isolation # "READ_UNCOMMITTED" /\ scan.out.call = "Next"
        /\ scan.out.result = "true")
       => /\ "INTENTION_SHARED" \in scan.table_lock_set
          /\ scan.out.row \in RowsLocked
          /\ scan.out.lock = "granted"
  /\ scan.out.lock \in {"refused", "abort"}
       => /\ scan.out.result = "ExecutionException"
          /\ scan.out.row = NoRow
          /\ scan.state = "thrown"
  /\ scan.isolation = "READ_UNCOMMITTED"
       => /\ scan.lock_requests = 0
          /\ scan.table_lock_set = {}
          /\ RowsLocked = {}

C28_Witness ==
  /\ scan.isolation = "READ_COMMITTED"
  /\ scan.out.call = "Next"
  /\ scan.out.result = "true"
  /\ scan.out.row = 2
  /\ RowsLocked = {1, 2}

\* C29: a Next that finds the iterator at End() returns false; under
\* READ_COMMITTED the transaction then holds no shared row lock of the
\* table and not its table lock, whatever the number of rows and however
\* often Next is called at the end; under every other level it holds what
\* it held before, the table lock and the lock of every row under
\* REPEATABLE_READ, nothing under READ_UNCOMMITTED.
C29_LockRelease ==
  (scan.out.call = "Next" /\ scan.out.at_end) =>
    /\ scan.out.result = "false"
    /\ IF scan.isolation = "READ_COMMITTED"
         THEN RowsLocked = {} /\ scan.table_lock_set = {}
       ELSE IF scan.isolation = "REPEATABLE_READ"
         THEN /\ RowsLocked = 1 .. scan.rows
              /\ scan.table_lock_set = {"INTENTION_SHARED"}
         ELSE RowsLocked = {} /\ scan.table_lock_set = {}

\* The page latches that a thread holds exclusive.
WriteLatched(thread) ==
  {page_id \in CrabPageIds : rwlatch[page_id].writer = thread}

\* C23: a thread that has come back from Insert or Remove by any of their
\* return paths holds no page latch exclusive and not the root id latch,
\* and the page set of its transaction is empty.
C23_ReleasedOnReturn ==
  \A thread \in Threads :
    (txn[thread].pc = "idle" /\ txn[thread].op \in {"INSERT", "DELETE"})
      => /\ txn[thread].page_set = <<>>
         /\ WriteLatched(thread) = {}
         /\ root_page_id_latch.writer # thread
         /\ thread \notin root_page_id_latch.readers


\* C22: no thread ever waits for a latch that will not be given back.  A
\* thread inside GetLeafPage that is about to latch a page which it holds
\* exclusive itself waits for itself, or has its call ended by the
\* std::system_error of the lock; neither happens.
C22_NoDeadlock ==
  \A thread \in Threads :
    /\ (/\ txn[thread].pc \in {"Descend", "DescendW"}
        /\ Resident(tree, txn[thread].next_page_id))
         => rwlatch[txn[thread].next_page_id].writer # thread
    /\ txn[thread].result # "system_error: resource deadlock"


\* The pages that GetLeafPage passes from page_id down to the leaf of key.
RECURSIVE PathFrom(_, _, _)
PathFrom(t, page_id, key) ==
  IF ~Resident(t, page_id) THEN <<>>
  ELSE IF IsLeafPage(t.pages[page_id]) THEN <<page_id>>
  ELSE <<page_id>> \o PathFrom(t, NextPageId(t.pages[page_id], key), key)

\* The path from its deepest page that is safe for op on, the whole path
\* behind the sentinel of the root id latch when none of its pages is safe.
CrabStack(t, path, op) ==
  LET safe == {i \in DOMAIN path : IsPageSafe(t.pages[path[i]], op)}
      deepest == CHOOSE i \in safe : \A j \in safe : j <= i
  IN  IF safe = {} THEN <<NullPage>> \o path
      ELSE SubSeq(path, deepest, Len(path))

\* The thread has come to the leaf by the pessimistic descent: its page set
\* is the crab stack of the search path, and it holds exactly those latches.
PessimisticStack(thread) ==
  LET me == txn[thread]
      stack == CrabStack(tree, PathFrom(tree, tree.root_page_id, me.key),
                         me.op)
  IN  /\ me.page_set = stack
      /\ WriteLatched(thread) = Range(stack) \ {NullPage}
      /\ (root_page_id_latch.writer = thread) = (NullPage \in Range(stack))

\* The thread has come to a safe leaf by the optimistic descent: it holds
\* the write latch of the leaf and nothing else.
OptimisticLeafOnly(thread) ==
  LET me == txn[thread] IN
  /\ me.page_set = <<me.page>>
  /\ WriteLatched(thread) = {me.page}
  /\ root_page_id_latch.writer # thread
  /\ thread \notin root_page_id_latch.readers

\* C30: an Insert or Remove that has reached its leaf by the pessimistic
\* descent holds, in root-to-leaf order, the pages of the search path from
\* the deepest safe one down to the leaf (behind the root id sentinel when
\* none is safe) and no latch above them; one that has reached a safe leaf
\* by the optimistic descent holds the write latch of the leaf only.
C30_CrabStack ==
  \A thread \in Threads :
    (txn[thread].pc = "AtLeaf" /\ txn[thread].op # "SEARCH")
      => IF txn[thread].first THEN OptimisticLeafOnly(thread)
                              ELSE PessimisticStack(thread)


\* C21: every call gives back what it has to give by the keys that are in
\* the tree at one moment while it holds its leaf; no Insert or Remove is
\* lost on the way to its leaf; and when no call is under way the tree
\* holds exactly the keys that were inserted and not removed since.
C21_Linearizable ==
  /\ \A thread \in Threads :
       /\ txn[thread].pc = "idle" => txn[thread].result = txn[thread].expected
       /\ txn[thread].pc = "fault" => txn[thread].op = "SEARCH"
  /\ (\A thread \in Threads : txn[thread].pc = "idle")
       => \A key \in 1 .. MaxCrabKey :
            GetValue(tree, key) = Stored(tree_pairs, key)


\* C24: Insert and Remove change the contents of a page (entries, size,
\* next_page_id, parent_page_id) only while the calling thread holds the
\* write latch of that page.
C24_WritesUnderLatch ==
  \A thread \in Threads : txn[thread].unlatched = {}


\* C27: after an Insert that NewPage ended with "no available page!" no
\* leaf of the tree holds max_size entries, no internal page holds more
\* than max_size children, and the thread holds no latch and has an empty
\* page set.
C27_CapacityError ==
  \A thread \in Threads :
    txn[thread].result = "logic_error: no available page!"
      => /\ \A page_id \in DOMAIN tree.pages :
              IF IsLeafPage(tree.pages[page_id])
                THEN GetSize(tree.pages[page_id]) < tree.leaf_max_size
                ELSE GetSize(tree.pages[page_id]) <= tree.internal_max_size
         /\ txn[thread].page_set = <<>>
         /\ WriteLatched(thread) = {}
         /\ root_page_id_latch.writer # thread


\* Insert(key, value) into the leaf of key brings it to max_size entries
\* and the call stays on the code's normal path.
SplitsLeaf(t, key, value) ==
  /\ ~IsEmpty(t)
  /\ ~LeafHasKey(t.pages[GetLeafPage(t, key)], key)
  /\ GetSize(t.pages[GetLeafPage(t, key)]) + 1 = t.leaf_max_size
  /\ BPlusTreeInsert(t, key, value).tree.fault = "none"

\* The split that Insert(key, value) makes gives the new right leaf the
\* `count` largest pairs and leaves the others to the old leaf; the new leaf
\* is linked in behind the old one; its first key is the separator, in the
\* parent or in a new root of the two leaves.
SplitGives(t, key, value, count) ==
  LET leaf_id == GetLeafPage(t, key)
      before == t.pages[leaf_id]
      full == LeafInsert(before, key, value).array
      new_id == t.next_page_id
      after == BPlusTreeInsert(t, key, value).tree
      old == after.pages[leaf_id]
      new == after.pages[new_id]
      separator == [key |-> KeyAt(new, 0), value |-> new_id]
  IN  /\ Resident(after, new_id) /\ IsLeafPage(new)
      /\ new.array = SubSeq(full, Len(full) - count + 1, Len(full))
      /\ old.array = SubSeq(full, 1, Len(full) - count)
      /\ new.next_page_id = before.next_page_id
      /\ old.next_page_id = new_id
      /\ IF IsRootPage(before)
           THEN LET root == after.pages[after.root_page_id] IN
                /\ after.root_page_id \notin DOMAIN t.pages
                /\ ~IsLeafPage(root) /\ GetSize(root) = 2
                /\ ValueAt(root, 0) = leaf_id
                /\ root.array[2] = separator
           ELSE \E page_id \in DOMAIN after.pages :
                  /\ ~IsLeafPage(after.pages[page_id])
                  /\ \E slot \in DOMAIN after.pages[page_id].array :
                       after.pages[page_id].array[slot] = separator

\* C31: the Insert that brings a leaf to max_size entries splits it: the
\* new right leaf gets exactly max_size / 2 pairs, the largest ones, the old
\* leaf keeps the rest, new.next = old.next, old.next = new, and the first
\* key of the new leaf goes into the parent or into a new root of size 2.
C31_LeafSplit ==
  NoFault =>
    \A key \in TreeKeys, value \in TreeRids :
      SplitsLeaf(tree, key, value)
        => SplitGives(tree, key, value, tree.leaf_max_size \div 2)

\* The rebalancing a page below its minimum size is to get, as a function of
\* the sizes alone: left merge before right merge before left borrow before
\* right borrow; strictly below max_size for leaves, at most max_size for
\* internal pages.
StatedChoice(t, page, peers) ==
  LET room(peer_id) ==
        /\ peer_id # INVALID_PAGE_ID
        /\ IF IsLeafPage(page)
             THEN GetSize(t.pages[peer_id]) + GetSize(page) < page.max_size
             ELSE GetSize(t.pages[peer_id]) + GetSize(page) <= page.max_size
  IN  IF room(peers[1]) THEN "merge left"
      ELSE IF room(peers[2]) THEN "merge right"
      ELSE IF /\ peers[1] # INVALID_PAGE_ID
              /\ GetSize(t.pages[peers[1]]) > GetMinSize(page)
        THEN "borrow left"
      ELSE "borrow right"

\* after is before with the slots of right_id moved behind those of left_id
\* (through the parent's key for internal pages) and right_id discarded.
MovedRightIntoLeft(before, after, left_id, right_id, key_between) ==
  LET left == before.pages[left_id]
      right == before.pages[right_id]
  IN  /\ right_id \in after.deleted_page_set
      /\ left_id \notin after.deleted_page_set
      /\ after.pages[left_id].array =
           IF IsLeafPage(left) THEN left.array \o right.array
           ELSE left.array
                  \o <<[key |-> key_between, value |-> ValueAt(right, 0)]>>
                  \o Tail(right.array)

\* after a borrow between left_id and right_id both hold their minimum and
\* the parent's key for right_id is the first key stored below right_id.
Borrowed(after, left_id, right_id, parent_id) ==
  LET left == after.pages[left_id]
      right == after.pages[right_id]
      parent == after.pages[parent_id]
      below == KeysUnder(after, right_id)
  IN  /\ GetSize(left) >= GetMinSize(left)
      /\ GetSize(right) >= GetMinSize(right)
      /\ below # {}
      /\ KeyAt(parent, FindValueIndex(parent, right_id)) = Least(below)

\* DeleteEntry(t, page_id, key) and the calls of DeleteEntry it makes on the
\* way up rebalance every page that falls below its minimum as stated.
RECURSIVE RebalancedAsStated(_, _, _)
RebalancedAsStated(t, page_id, key) ==
  IF ~HasKey(t.pages[page_id], key) THEN TRUE
  ELSE
    LET page == RemoveKey(t.pages[page_id], key)
        t1 == SetPage(t, page)
        parent_id == page.parent_page_id
    IN
    IF IsRootPage(page) \/ GetSize(page) >= GetMinSize(page) THEN TRUE
    ELSE
      /\ Rebalance(t1, page).fault \notin
           {"fetch of a deleted page", "range_error: Can not find value.",
            "logic_error: no peer nodes"}
      /\ LET parent == t1.pages[parent_id]
             peers == GetPeerNode(parent, FindValueIndex(parent, page_id))
             stated == StatedChoice(t1, page, peers)
             left_id == IF stated \in {"merge left", "borrow left"}
                          THEN peers[1] ELSE page_id
             right_id == IF stated \in {"merge left", "borrow left"}
                           THEN page_id ELSE peers[2]
             key_between == KeyAt(parent, FindValueIndex(parent, right_id))
             merged == AddIntoDeletedPageSet(
                         MergeInto(t1, left_id, right_id, key_between),
                         right_id)
         IN  /\ right_id # INVALID_PAGE_ID
             /\ Choice(t1, page, peers) = stated
             /\ IF stated \in {"merge left", "merge right"}
                  THEN /\ MovedRightIntoLeft(t1, merged, left_id, right_id,
                                             key_between)
                       /\ RebalancedAsStated(merged, parent_id, key_between)
                  ELSE Borrowed(Rebalance(t1, page), left_id, right_id,
                                parent_id)

\* C32: a page that a Remove leaves below its minimum merges with its left
\* sibling when the two sizes fit (below max_size for leaves, at most
\* max_size for internal pages), else with its right sibling, else borrows
\* from the left sibling when that holds more than min_size, else from the
\* right one; a merge moves the right page into the left one; a borrow
\* leaves both at min_size or above and the parent's key at the first key
\* below the right page.
C32_RebalancingChoice ==
  NoFault =>
    \A key \in TreeKeys :
      ~IsEmpty(tree) => RebalancedAsStated(tree, GetLeafPage(tree, key), key)

\* C33: an iterator that is on an entry holds the read latch and a pin of
\* exactly one leaf, its own; in the middle of a hand-off of operator++ it
\* holds a read latch still, and the leaf it goes to is a leaf of the tree.
C33_IteratorHandOff ==
  \A thread \in Threads :
    LET me == txn[thread] IN
    /\ me.pc = "AtEntry" =>
         /\ ReadLatched(thread) = {me.page}
         /\ pin_count[me.page] > 0
         /\ Resident(tree, me.page) /\ IsLeafPage(tree.pages[me.page])
    /\ me.pc = "HandOff" =>
         /\ ReadLatched(thread) # {}
         /\ Resident(tree, me.next_page_id)
         /\ IsLeafPage(tree.pages[me.next_page_id])

\* after is before with one page more, a root leaf of parent and next
\* INVALID_PAGE_ID that holds the pair (key, value) and nothing else.
StartedWith(before, after, key, value) ==
  LET root == after.pages[after.root_page_id] IN
  /\ after.root_page_id \notin DOMAIN before.pages
  /\ DOMAIN after.pages = DOMAIN before.pages \cup {after.root_page_id}
  /\ \A page_id \in DOMAIN before.pages :
       after.pages[page_id] = before.pages[page_id]
  /\ after.next_page_id = before.next_page_id + 1
  /\ IsLeafPage(root)
  /\ root.parent_page_id = INVALID_PAGE_ID
  /\ root.next_page_id = INVALID_PAGE_ID
  /\ GetSize(root) = 1
  /\ root.array = <<[key |-> key, value |-> value]>>

\* The step in which an Insert that met the empty tree has the root id
\* latch exclusively: it starts the tree when the tree is empty still, and
\* touches nothing when another Insert has started it by then.
SecondLook(thread) ==
  (txn[thread].pc = "WLockEmpty" /\ txn'[thread].pc # "WLockEmpty")
    => IF IsEmpty(tree)
         THEN /\ StartedWith(tree, tree', txn[thread].key, txn[thread].key)
              /\ txn'[thread].result = "true"
         ELSE /\ tree' = tree
              /\ txn'[thread].pc = "RLockAgain"

ParentsListChildren(t) ==
  \A page_id \in DOMAIN t.pages \ {t.root_page_id} :
    LET parent_id == t.pages[page_id].parent_page_id IN
    /\ Resident(t, parent_id)
    /\ ~IsLeafPage(t.pages[parent_id])
    /\ Cardinality({i \in 0 .. (GetSize(t.pages[parent_id]) - 1) :
                      ValueAt(t.pages[parent_id], i) = page_id}) = 1

\* C35: after every Insert and Remove that has returned, the parent_page_id
\* of every page but the root names an internal page that lists the page
\* among its children exactly once, the children that a split, a merge or a
\* redistribution moved between internal pages included.
C35_ParentPointers ==
  NoFault => ParentsListChildren(tree)

\* C36: when no call is under way, every Insert, Remove and GetValue having
\* returned, no index page is pinned: each FetchPage and NewPage of the
\* calls has had its UnpinPage, those of the parents fetched for the peers
\* and for the rebalancing and of the child of a collapsing root included.
C36_PinBalance ==
  (\A thread \in Threads : txn[thread].pc = "idle")
    => \A page_id \in CrabPageIds : pin_count[page_id] = 0

\* The pages that Removes have handed to DeletePage: given out by NewPage
\* and pages of the tree no longer.
Discarded(t) == {page_id \in 0 .. (t.next_page_id - 1) : ~Resident(t, page_id)}

\* C37: a page that a Remove discards (the right page of a merge, the root
\* that collapses onto its only child, the root leaf that is emptied) is
\* unpinned when Remove hands it to DeletePage, so that DeletePage returns
\* true and the frame goes back to the free list: with every call
\* returned, no discarded page is pinned.
C37_NodeDestruction ==
  (\A thread \in Threads : txn[thread].pc = "idle")
    => \A page_id \in Discarded(tree) : pin_count[page_id] = 0

\* C38: after every Insert and Remove that has returned, the header page
\* holds one record under the name of the index, and its root id is the
\* root_page_id of the tree: after the first Insert, a root split, a root
\* collapse, the Remove of the last key and an Insert into the tree
\* emptied that way.  Before the first Insert there is no record.
C38_HeaderPage ==
  (NoFault /\ tree.next_page_id > 0)
    => tree.header_page = <<tree.root_page_id>>

\* The exceptions of the index that stand for a broken tree.
FatalErrors ==
  {"logic_error: no peer nodes", "logic_error: Tree structure is wrong!",
   "range_error: Can not find value.",
   "logic_error: internal page over max size",
   "logic_error: leaf page at max size"}

\* C39: with leaf_max_size and internal_max_size 3 or more, no sequence of
\* Insert and Remove calls of one thread on a tree that started empty ends
\* in "doesn't have peer nodes", "Tree structure is wrong!", a
\* FindValueIndex of -1, or an Insert into a page that is over its size.
C39_NoFatalError ==
  (tree.leaf_max_size >= 3 /\ tree.internal_max_size >= 3)
    => tree.fault \notin FatalErrors

\* C40: a frame whose pin count is 0 is in the free list, holding no page
\* and unknown to the replacer, or is tracked by the replacer as evictable;
\* so when NewPage or FetchPage has found an unpinned frame and the free
\* list is empty, Evict returns true and gives a frame of the pool, one
\* that is unpinned.
C40_FrameAcquisition ==
  /\ \A f \in FrameIds :
       pages[f].pin_count = 0 =>
         \/ /\ Occurrences(free_list, f) = 1
            /\ pages[f].page_id = INVALID_PAGE_ID
            /\ f \notin Tracked(replacer)
         \/ /\ Occurrences(free_list, f) = 0
            /\ Evictable(replacer, f)
  /\ (free_list = <<>> /\ IsPageAvailable(pages)) =>
       /\ Evict(replacer).ok
       /\ Evict(replacer).frame_id \in FrameIds
       /\ pages[Evict(replacer).frame_id].pin_count = 0

\* The free list is empty, a frame is pinned, and the only frames the
\* replacer can give are in cache_list_, after their k-th access.
C40_Witness ==
  /\ free_list = <<>>
  /\ \E f \in FrameIds : pages[f].pin_count > 0
  /\ \E f \in FrameIds : pages[f].pin_count = 0
  /\ \A f \in FrameIds :
       pages[f].pin_count = 0 => Occurrences(replacer.cache_list, f) = 1
  /\ Evict(replacer).ok

====
